---- MODULE Spec2Model ----
(***************************************************************************)
(* Model of mcp-drive's query builder (src/lib/query-builder.ts) and of    *)
(* the tool handlers files-search, folder-search and file-move.            *)
(*                                                                         *)
(* A JavaScript string is a sequence of one-character strings, so that     *)
(* escaping, trimming, joining and the clean-up regular expression are     *)
(* computed character by character.  An optional property of an object    *)
(* is <<>> when the key is absent and <<v>> when it is present with        *)
(* value v.                                                                *)
(***************************************************************************)
EXTENDS Naturals, Sequences, FiniteSets

VARIABLES
    query,      \* the argument of the current toDriveQuery call
    pc,         \* "called" | "returned" | "thrown" (and "listing" in a search)
    out,        \* what the current call produced
    prevQuery,  \* the argument of the call before (<<>> when there is none)
    prevOut,    \* what the call before produced
    calls,      \* number of calls made so far
    keyOrder,   \* the keys of the argument in the order the caller wrote them
                \* (<<>> when that is the order of the schema)
    tool,       \* the search tool whose handler runs: "files-search" | "folder-search"
    sent,       \* listOptions.q of the drive.files.list call (<<>> before the call)
    reply,      \* what the search handler gave back
    pageSize,   \* the pageSize argument of the search (<<>> when absent)
    shape,      \* the shape argument of the search
    sentPageSize,  \* listOptions.pageSize (<<>> before it is computed)
    listed,     \* how drive.files.list settled (<<>> before that)
    fileIds,          \* file-move: fileIdArray; file-move-to-trash: ids
    isBatch,          \* file-move: Array.isArray(fileIds)
    metadataResults,  \* file-move: the drive.files.get promises, by index (the
                      \* one promise of moveSingleFile included)
    filesToMove,      \* file-move: the indices whose metadata arrived
    moveResults,      \* file-move and file-move-to-trash: the drive.files.update
                      \* promises, by position
    moved,            \* file-move: fileId of each MoveResult
    failed,           \* file-move: fileId of each FailedMove; file-move-to-trash:
                      \* id of each entry of failures
    result,           \* the result object of the move handler (<<>> before the return)
    mpc,              \* where the move handler stands
    drive,            \* path resolution: what drive.files.get answers for each folder id
    walks,            \* path resolution: the resolveFolderPath calls of the request
    folderCache       \* folder-search: the folderCache of the request

queryVars == <<query, pc, out, prevQuery, prevOut, calls, keyOrder>>
searchVars == <<tool, sent, reply, pageSize, shape, sentPageSize, listed>>
moveVars ==
    <<fileIds, isBatch, metadataResults, filesToMove, moveResults, moved, failed,
      result, mpc>>

pathVars == <<drive, walks, folderCache>>

vars == <<queryVars, searchVars, moveVars, pathVars>>

(***************************************************************************)
(* Bounds of the explored inputs.                                          *)
(***************************************************************************)
MaxLen == 3     \* longest literal drawn from Chars
MaxVals == 2    \* longest $any/$all/$none array
MaxKids == 3    \* longest $and/$or array at the root
MaxCalls == 2   \* calls in one run of SpecCalls
MaxIds == 3     \* longest fileIds array of a file-move

(***************************************************************************)
(* Strings.                                                                *)
(***************************************************************************)
None == <<>>
Some(v) == <<v>>
Has(o) == o # <<>>

S_and == <<" ","a","n","d"," ">>
S_or == <<" ","o","r"," ">>
S_not == <<"n","o","t"," ">>
S_nameContains == <<"n","a","m","e"," ","c","o","n","t","a","i","n","s"," ">>
S_mimeTypeEq == <<"m","i","m","e","T","y","p","e"," ","="," ">>
S_fullTextContains == <<"f","u","l","l","T","e","x","t"," ","c","o","n","t","a","i","n","s"," ">>
S_inParents == <<" ","i","n"," ","p","a","r","e","n","t","s">>
S_inOwners == <<" ","i","n"," ","o","w","n","e","r","s">>
S_starredEq == <<"s","t","a","r","r","e","d"," ","="," ">>
S_sharedWithMeEq == <<"s","h","a","r","e","d","W","i","t","h","M","e"," ","="," ">>
S_trashedEq == <<"t","r","a","s","h","e","d"," ","="," ">>
S_true == <<"t","r","u","e">>
S_false == <<"f","a","l","s","e">>
S_modifiedTimeGte == <<"m","o","d","i","f","i","e","d","T","i","m","e"," ",">","="," ","'">>
S_modifiedTimeLt == <<"m","o","d","i","f","i","e","d","T","i","m","e"," ","<"," ","'">>

\* \s of the regular expressions and of String.prototype.trim, on the
\* characters the inputs are drawn from
IsSpace(c) == c = " "

\* the i flag of the clean-up expression
Lower(c) ==
    CASE c = "A" -> "a" [] c = "N" -> "n" [] c = "D" -> "d"
      [] c = "O" -> "o" [] c = "R" -> "r" [] OTHER -> c

RECURSIVE SpaceRun(_, _)
\* length of the run of white space of s that starts at index i
SpaceRun(s, i) ==
    IF i <= Len(s) /\ IsSpace(s[i]) THEN 1 + SpaceRun(s, i + 1) ELSE 0

RECURSIVE SpaceRunBack(_, _)
\* length of the run of white space of s that ends at index i
SpaceRunBack(s, i) ==
    IF i >= 1 /\ IsSpace(s[i]) THEN 1 + SpaceRunBack(s, i - 1) ELSE 0

\* String.prototype.trim
trim(s) ==
    LET lead == SpaceRun(s, 1)
    IN  IF lead = Len(s) THEN <<>>
        ELSE SubSeq(s, lead + 1, Len(s) - SpaceRunBack(s, Len(s)))

\* s.trim() !== ''
NonBlank(s) == trim(s) # <<>>

RECURSIVE join(_, _)
\* Array.prototype.join
join(arr, sep) ==
    IF Len(arr) = 0 THEN <<>>
    ELSE IF Len(arr) = 1 THEN arr[1]
    ELSE arr[1] \o sep \o join(Tail(arr), sep)

RECURSIVE filterNonBlank(_)
\* arr.filter((s) => s.trim() !== '')
filterNonBlank(arr) ==
    IF arr = <<>> THEN <<>>
    ELSE IF NonBlank(arr[1]) THEN <<arr[1]>> \o filterNonBlank(Tail(arr))
    ELSE filterNonBlank(Tail(arr))

\* `${b}` of a boolean
BoolStr(b) == IF b THEN S_true ELSE S_false

(***************************************************************************)
(* The helpers of toDriveQuery.                                            *)
(***************************************************************************)
\* p leaving the group open
p_Open(s) == <<"(">> \o s

p(s) == <<"(">> \o s \o <<")">>

RECURSIVE replaceQuotes(_)
\* str.replace(/'/g, "\\'")
replaceQuotes(str) ==
    IF str = <<>> THEN <<>>
    ELSE IF str[1] = "'" THEN <<"\\", "'">> \o replaceQuotes(Tail(str))
    ELSE <<str[1]>> \o replaceQuotes(Tail(str))

RECURSIVE replaceFirstQuote(_)
\* str.replace(/'/, "\\'"): the expression without its g flag
replaceFirstQuote(str) ==
    IF str = <<>> THEN <<>>
    ELSE IF str[1] = "'" THEN <<"\\", "'">> \o Tail(str)
    ELSE <<str[1]>> \o replaceFirstQuote(Tail(str))

quote_FirstOnly(s) == <<"'">> \o replaceFirstQuote(s) \o <<"'">>

quote(s) == <<"'">> \o replaceQuotes(s) \o <<"'">>

\* OptList(o): the list of an optional list, empty when the key is absent
OptList(o) == IF o = <<>> THEN <<>> ELSE o[1]

\* accumulators kept at module level: a call goes on with what the call
\* before left in them
NewAccumulators_Shared ==
    [nameIncludes |-> OptList(prevOut.filters.nameIncludes),
     mimeTypeIncludes |-> OptList(prevOut.filters.mimeTypeIncludes),
     fullTextIncludes |-> OptList(prevOut.filters.fullTextIncludes),
     parentIdIncludes |-> OptList(prevOut.filters.parentIdIncludes),
     ownerIncludes |-> OptList(prevOut.filters.ownerIncludes),
     starredFlag |-> prevOut.filters.starred,
     sharedWithMeFlag |-> prevOut.filters.sharedWithMe,
     trashedFlag |-> prevOut.filters.trashed]

\* the accumulators a call declares before it compiles anything
NewAccumulators ==
    [nameIncludes |-> <<>>, mimeTypeIncludes |-> <<>>, fullTextIncludes |-> <<>>,
     parentIdIncludes |-> <<>>, ownerIncludes |-> <<>>,
     starredFlag |-> None, sharedWithMeFlag |-> None, trashedFlag |-> None]

fieldKeys == <<"name", "mimeType", "fullText", "parentId", "owner">>

\* fv pushing the escaped value instead of the raw one
fv_PushEscaped(field, raw, acc) ==
    LET rawVal == replaceQuotes(raw)
        v == quote(raw)
    IN  CASE field = "name" ->
               [s |-> S_nameContains \o v,
                acc |-> [acc EXCEPT !.nameIncludes = Append(@, rawVal)]]
          [] field = "mimeType" ->
               [s |-> S_mimeTypeEq \o v,
                acc |-> [acc EXCEPT !.mimeTypeIncludes = Append(@, rawVal)]]
          [] field = "fullText" ->
               [s |-> S_fullTextContains \o v,
                acc |-> [acc EXCEPT !.fullTextIncludes = Append(@, rawVal)]]
          [] field = "parentId" ->
               [s |-> v \o S_inParents,
                acc |-> [acc EXCEPT !.parentIdIncludes = Append(@, rawVal)]]
          [] field = "owner" ->
               [s |-> v \o S_inOwners,
                acc |-> [acc EXCEPT !.ownerIncludes = Append(@, rawVal)]]
          [] OTHER -> [s |-> <<>>, acc |-> acc]

\* fv with the fragments of parentId and owner exchanged
fv_SwappedCollections(field, raw, acc) ==
    LET rawVal == raw
        v == quote(rawVal)
    IN  CASE field = "name" ->
               [s |-> S_nameContains \o v,
                acc |-> [acc EXCEPT !.nameIncludes = Append(@, rawVal)]]
          [] field = "mimeType" ->
               [s |-> S_mimeTypeEq \o v,
                acc |-> [acc EXCEPT !.mimeTypeIncludes = Append(@, rawVal)]]
          [] field = "fullText" ->
               [s |-> S_fullTextContains \o v,
                acc |-> [acc EXCEPT !.fullTextIncludes = Append(@, rawVal)]]
          [] field = "parentId" ->
               [s |-> v \o S_inOwners,
                acc |-> [acc EXCEPT !.parentIdIncludes = Append(@, rawVal)]]
          [] field = "owner" ->
               [s |-> v \o S_inParents,
                acc |-> [acc EXCEPT !.ownerIncludes = Append(@, rawVal)]]
          [] OTHER -> [s |-> <<>>, acc |-> acc]

\* fv returns the fragment and pushes the raw value on the field's list
fv(field, raw, acc) ==
    LET rawVal == raw
        v == quote(rawVal)
    IN  CASE field = "name" ->
               [s |-> S_nameContains \o v,
                acc |-> [acc EXCEPT !.nameIncludes = Append(@, rawVal)]]
          [] field = "mimeType" ->
               [s |-> S_mimeTypeEq \o v,
                acc |-> [acc EXCEPT !.mimeTypeIncludes = Append(@, rawVal)]]
          [] field = "fullText" ->
               [s |-> S_fullTextContains \o v,
                acc |-> [acc EXCEPT !.fullTextIncludes = Append(@, rawVal)]]
          [] field = "parentId" ->
               [s |-> v \o S_inParents,
                acc |-> [acc EXCEPT !.parentIdIncludes = Append(@, rawVal)]]
          [] field = "owner" ->
               [s |-> v \o S_inOwners,
                acc |-> [acc EXCEPT !.ownerIncludes = Append(@, rawVal)]]
          [] OTHER -> [s |-> <<>>, acc |-> acc]

chain(op, arr) ==
    LET filtered == filterNonBlank(arr)
    IN  IF Len(filtered) = 0 THEN <<>>
        ELSE IF Len(filtered) = 1 THEN filtered[1]
        ELSE p(join(filtered, op))

\* one element of results: a fragment that is blank is filtered out
consFv(s, m) ==
    [results |-> (IF NonBlank(s) THEN <<s>> ELSE <<>>) \o m.results, acc |-> m.acc]

RECURSIVE mapFv(_, _, _)
RECURSIVE mapFvTail(_, _, _)
\* nonEmpty.map((v) => fv(field, v)).filter((result) => result.trim() !== '')
mapFv(field, vals, acc) ==
    IF vals = <<>> THEN [results |-> <<>>, acc |-> acc]
    ELSE mapFvTail(field, Tail(vals), fv(field, vals[1], acc))

\* the values after the first, on the accumulators fv left
mapFvTail(field, rest, r) == consFv(r.s, mapFv(field, rest, r.acc))

\* results.length > 0 ? chain('or', results) : ''
anyResult(m) ==
    [s |-> IF Len(m.results) > 0 THEN chain(S_or, m.results) ELSE <<>>,
     acc |-> m.acc, err |-> ""]

\* results.length > 0 ? chain('and', results) : ''
allResult(m) ==
    [s |-> IF Len(m.results) > 0 THEN chain(S_and, m.results) ELSE <<>>,
     acc |-> m.acc, err |-> ""]

\* the negation without the group around the chain
noneResult_NoGroup(m) ==
    [s |-> IF Len(m.results) > 0 THEN S_not \o chain(S_or, m.results) ELSE <<>>,
     acc |-> m.acc, err |-> ""]

\* results.length > 0 ? `not ${p(chain('or', results))}` : ''
noneResult(m) ==
    [s |-> IF Len(m.results) > 0 THEN S_not \o p(chain(S_or, m.results)) ELSE <<>>,
     acc |-> m.acc, err |-> ""]

\* an operator object without operator taken as a field without values
fieldExpr_Lenient(field, op, acc) ==
    IF Has(op.any) THEN anyResult(mapFv(field, filterNonBlank(op.any[1]), acc))
    ELSE IF Has(op.all) THEN allResult(mapFv(field, filterNonBlank(op.all[1]), acc))
    ELSE IF Has(op.none) THEN noneResult(mapFv(field, filterNonBlank(op.none[1]), acc))
    ELSE [s |-> <<>>, acc |-> acc, err |-> ""]

\* fieldExpr: the first of $any, $all, $none that is present decides; the
\* message of the throw ends with JSON.stringify(op), which is {} for an
\* object with none of the three
fieldExpr(field, op, acc) ==
    IF Has(op.any) THEN anyResult(mapFv(field, filterNonBlank(op.any[1]), acc))
    ELSE IF Has(op.all) THEN allResult(mapFv(field, filterNonBlank(op.all[1]), acc))
    ELSE IF Has(op.none) THEN noneResult(mapFv(field, filterNonBlank(op.none[1]), acc))
    ELSE [s |-> <<>>, acc |-> acc, err |-> "Unknown field operator {}"]

\* both bounds joined without their own parentheses
dateExpr_NoGroup(d) ==
    LET gte == IF Has(d.gte) /\ d.gte[1] # <<>>
               THEN << S_modifiedTimeGte \o d.gte[1] \o <<"'">> >> ELSE <<>>
        lt == IF Has(d.lt) /\ d.lt[1] # <<>>
              THEN << S_modifiedTimeLt \o d.lt[1] \o <<"'">> >> ELSE <<>>
    IN  join(gte \o lt, S_and)

dateExpr(d) ==
    LET gte == IF Has(d.gte) /\ d.gte[1] # <<>>
               THEN << S_modifiedTimeGte \o d.gte[1] \o <<"'">> >> ELSE <<>>
        lt == IF Has(d.lt) /\ d.lt[1] # <<>>
              THEN << S_modifiedTimeLt \o d.lt[1] \o <<"'">> >> ELSE <<>>
        parts == gte \o lt
    IN  IF Len(parts) > 1 THEN p(join(parts, S_and))
        ELSE IF Len(parts) = 1 THEN parts[1] ELSE <<>>

\* typeof op === 'string' ? { $any: [op] } : op
normalizedOp(op) ==
    IF Has(op.str) THEN [any |-> Some(<<op.str[1]>>), all |-> None, none |-> None]
    ELSE [any |-> op.any, all |-> op.all, none |-> op.none]

ObjectKeys == {"and", "or", "not", "starred", "sharedWithMe", "trashed",
               "modifiedTime", "name", "mimeType", "fullText", "parentId",
               "owner", "rawDriveQuery"}

\* Object.keys(n).length
NumKeys(n) == Cardinality({k \in ObjectKeys : Has(n[k])})

\* the three typeof ... === 'boolean' blocks and the modifiedTime block of emit
flagExprs(n, acc) ==
    LET e1 == IF Has(n.starred) THEN <<S_starredEq \o BoolStr(n.starred[1])>> ELSE <<>>
        e2 == IF Has(n.sharedWithMe)
              THEN <<S_sharedWithMeEq \o BoolStr(n.sharedWithMe[1])>> ELSE <<>>
        e3 == IF Has(n.trashed) THEN <<S_trashedEq \o BoolStr(n.trashed[1])>> ELSE <<>>
        e4 == IF Has(n.modifiedTime) THEN <<dateExpr(n.modifiedTime[1])>> ELSE <<>>
    IN  [expressions |-> e1 \o e2 \o e3 \o e4,
         acc |-> [acc EXCEPT
                    !.starredFlag = IF Has(n.starred) THEN n.starred ELSE @,
                    !.sharedWithMeFlag = IF Has(n.sharedWithMe) THEN n.sharedWithMe ELSE @,
                    !.trashedFlag = IF Has(n.trashed) THEN n.trashed ELSE @]]

RECURSIVE fieldLoop(_, _, _, _)
RECURSIVE fieldStep(_, _, _, _, _)
\* for (const k of fieldKeys()) { ... } of emit, from the i-th key on
fieldLoop(n, i, expressions, acc) ==
    IF i > Len(fieldKeys) THEN [expressions |-> expressions, acc |-> acc, err |-> ""]
    ELSE IF ~Has(n[fieldKeys[i]]) THEN fieldLoop(n, i + 1, expressions, acc)
    ELSE fieldStep(n, i, expressions, acc,
                   fieldExpr(fieldKeys[i], normalizedOp(n[fieldKeys[i]][1]), acc))

\* the body of the loop once fieldExpr has returned r (or thrown):
\* if (result.trim() !== '') expressions.push(result)
fieldStep(n, i, expressions, acc, r) ==
    IF r.err # "" THEN [expressions |-> expressions, acc |-> acc, err |-> r.err]
    ELSE fieldLoop(n, i + 1,
                   IF NonBlank(r.s) THEN Append(expressions, r.s) ELSE expressions,
                   r.acc)

\* the end of emit: '' for the empty object, the chain of several
\* expressions, the only expression, or the throw
leafResult(n, acc, l) ==
    IF l.err # "" THEN [s |-> <<>>, acc |-> acc, err |-> l.err]
    ELSE IF Len(l.expressions) = 0 /\ NumKeys(n) = 0
         THEN [s |-> <<>>, acc |-> l.acc, err |-> ""]
    ELSE IF Len(l.expressions) > 1
         THEN [s |-> chain(S_and, l.expressions), acc |-> l.acc, err |-> ""]
    ELSE IF Len(l.expressions) = 1
         THEN [s |-> l.expressions[1], acc |-> l.acc, err |-> ""]
    ELSE [s |-> <<>>, acc |-> acc, err |-> "Unknown node"]

RECURSIVE fieldLoopOver(_, _, _, _)
RECURSIVE fieldStepOver(_, _, _, _, _)
\* a loop over the field keys in the order ks
fieldLoopOver(n, ks, expressions, acc) ==
    IF ks = <<>> THEN [expressions |-> expressions, acc |-> acc, err |-> ""]
    ELSE fieldStepOver(n, ks, expressions, acc,
                       fieldExpr(ks[1], normalizedOp(n[ks[1]][1]), acc))

fieldStepOver(n, ks, expressions, acc, r) ==
    IF r.err # "" THEN [expressions |-> expressions, acc |-> acc, err |-> r.err]
    ELSE fieldLoopOver(n, Tail(ks),
                       IF NonBlank(r.s) THEN Append(expressions, r.s) ELSE expressions,
                       r.acc)

\* the field loop following the key order of the argument
fieldLoopFrom_KeyOrder(n, f) ==
    IF keyOrder = <<>> THEN fieldLoop(n, 1, f.expressions, f.acc)
    ELSE fieldLoopOver(n, SelectSeq(keyOrder, LAMBDA k : k \in {"name", "mimeType",
                                      "fullText", "parentId", "owner"} /\ Has(n[k])),
                       f.expressions, f.acc)

\* the field loop, entered with the expressions and flags of the blocks before it
fieldLoopFrom(n, f) == fieldLoop(n, 1, f.expressions, f.acc)

\* the part of emit below its three combinator returns
emitLeaf(n, acc) == leafResult(n, acc, fieldLoopFrom(n, flagExprs(n, acc)))

\* p(children.join(sep)) of a nested $and/$or
groupOf(m, sep) == [s |-> p(join(m.results, sep)), acc |-> m.acc, err |-> m.err]

\* the root group wrapped like a nested one
topJoin_Grouped(m, sep) == groupOf(m, sep)

\* children.join(sep) of a $and/$or at the root
topJoin(m, sep) == [s |-> join(m.results, sep), acc |-> m.acc, err |-> m.err]

\* `not ${emit(n.$not)}`
notOf(r) == [s |-> S_not \o r.s, acc |-> r.acc, err |-> r.err]

\* result.trim() === '' ? '' : result
topLeaf(r) == [s |-> IF NonBlank(r.s) THEN r.s ELSE <<>>, acc |-> r.acc, err |-> r.err]

consEmit(s, m) == [results |-> <<s>> \o m.results, acc |-> m.acc, err |-> m.err]

RECURSIVE emit(_, _)
RECURSIVE mapEmit(_, _)
RECURSIVE mapEmitTail(_, _, _)

\* arr.map(emit): the children in order, each on the accumulators the one
\* before left; a throw ends the call
mapEmit(arr, acc) ==
    IF arr = <<>> THEN [results |-> <<>>, acc |-> acc, err |-> ""]
    ELSE mapEmitTail(Tail(arr), acc, emit(arr[1], acc))

mapEmitTail(rest, acc, r) ==
    IF r.err # "" THEN [results |-> <<>>, acc |-> acc, err |-> r.err]
    ELSE consEmit(r.s, mapEmit(rest, r.acc))

emit(n, acc) ==
    IF Has(n.and) THEN groupOf(mapEmit(n.and[1], acc), S_and)
    ELSE IF Has(n.or) THEN groupOf(mapEmit(n.or[1], acc), S_or)
    ELSE IF Has(n.not) THEN notOf(emit(n.not[1], acc))
    ELSE emitLeaf(n, acc)

emitTop(n, acc) ==
    IF NumKeys(n) = 0 THEN [s |-> <<>>, acc |-> acc, err |-> ""]
    ELSE IF Has(n.and) THEN topJoin(mapEmit(n.and[1], acc), S_and)
    ELSE IF Has(n.or) THEN topJoin(mapEmit(n.or[1], acc), S_or)
    ELSE IF Has(n.not) THEN notOf(emit(n.not[1], acc))
    ELSE topLeaf(emit(n, acc))

W_and == <<"a","n","d">>
W_or == <<"o","r">>

\* whether the word w (lower case) stands in s at index i, letter case ignored
WordAt(s, i, w) ==
    /\ i + Len(w) - 1 <= Len(s)
    /\ \A k \in 1..Len(w) : Lower(s[i + k - 1]) = w[k]

\* length of the match of \s+<w>\s+$ that starts at index i of s, or 0.
\* The first \s+ has to take its whole run, since a letter must follow
\* it, and the second has to reach the end of s.
MatchEndLen(s, i, w) ==
    LET r1 == SpaceRun(s, i)
        j == i + r1
        r2 == SpaceRun(s, j + Len(w))
    IN  IF r1 >= 1 /\ WordAt(s, j, w) /\ r2 >= 1 /\ j + Len(w) + r2 - 1 = Len(s)
        THEN r1 + Len(w) + r2 ELSE 0

\* length of the match of ^\s+<w>\s+ that starts at index i of s, or 0
\* (both \s+ are greedy)
MatchStartLen(s, i, w) ==
    LET r1 == SpaceRun(s, i)
        j == i + r1
        r2 == SpaceRun(s, j + Len(w))
    IN  IF i = 1 /\ r1 >= 1 /\ WordAt(s, j, w) /\ r2 >= 1
        THEN r1 + Len(w) + r2 ELSE 0

\* the match of /\s+and\s+$|\s+or\s+$|^\s+and\s+|^\s+or\s+/i at index i:
\* the first alternative that matches, in the order written
MatchLen(s, i) ==
    IF MatchEndLen(s, i, W_and) > 0 THEN MatchEndLen(s, i, W_and)
    ELSE IF MatchEndLen(s, i, W_or) > 0 THEN MatchEndLen(s, i, W_or)
    ELSE IF MatchStartLen(s, i, W_and) > 0 THEN MatchStartLen(s, i, W_and)
    ELSE MatchStartLen(s, i, W_or)

\* q.replace(/.../gi, ''): every match, leftmost first, the search going on
\* where the match before ended.  A match at index 1 is removed; any later
\* match is one of the two $ alternatives (^ only matches at index 1) and
\* runs to the end of s, so the leftmost of them ends the result.
replaceDangling(s) ==
    LET from == 1 + MatchLen(s, 1)
        hits == {j \in from..Len(s) : MatchLen(s, j) > 0}
        stop == IF hits = {} THEN Len(s) + 1
                ELSE CHOOSE j \in hits : \A k \in hits : j <= k
    IN  SubSeq(s, from, stop - 1)

cleanedQuery(q) == trim(replaceDangling(q))

EmptyFilters ==
    [nameIncludes |-> None, mimeTypeIncludes |-> None, fullTextIncludes |-> None,
     parentIdIncludes |-> None, ownerIncludes |-> None,
     starred |-> None, sharedWithMe |-> None, trashed |-> None]

\* if (xs.length) filters.xs = xs
ListKey(xs) == IF Len(xs) > 0 THEN Some(xs) ELSE None

\* the filters object assembled from the accumulators
filtersOf(acc) ==
    [nameIncludes |-> ListKey(acc.nameIncludes),
     mimeTypeIncludes |-> ListKey(acc.mimeTypeIncludes),
     fullTextIncludes |-> ListKey(acc.fullTextIncludes),
     parentIdIncludes |-> ListKey(acc.parentIdIncludes),
     ownerIncludes |-> ListKey(acc.ownerIncludes),
     starred |-> acc.starredFlag,
     sharedWithMe |-> acc.sharedWithMeFlag,
     trashed |-> acc.trashedFlag]

NoResult == [status |-> "none", q |-> <<>>, filters |-> EmptyFilters, error |-> ""]

\* a string query put through the clean-up of the structured path
rawResult_Cleaned(s) ==
    [status |-> "ok", q |-> cleanedQuery(s), filters |-> EmptyFilters, error |-> ""]

\* typeof query === 'string': the string comes back as it is
rawResult(s) == [status |-> "ok", q |-> s, filters |-> EmptyFilters, error |-> ""]

\* what the call gives once emitTop has returned r (or thrown): the cleaned
\* query and the filters assembled from the accumulators
resultOf(r) ==
    IF r.err # "" THEN [status |-> "throw", q |-> <<>>, filters |-> EmptyFilters,
                        error |-> r.err]
    ELSE [status |-> "ok", q |-> cleanedQuery(r.s), filters |-> filtersOf(r.acc),
          error |-> ""]

\* a structured query: compile, clean up, assemble the filters
structuredResult(n, acc) == resultOf(emitTop(n, acc))

\* a DriveQuery is [str |-> <<s>>, obj |-> <<>>] or [str |-> <<>>, obj |-> <<n>>]
toDriveQuery(qry) ==
    IF Has(qry.str) THEN rawResult(qry.str[1])
    ELSE structuredResult(qry.obj[1], NewAccumulators)

(***************************************************************************)
(* The inputs: DriveQuery values the schema accepts                        *)
(* (DriveQuerySchema: a string, or a strict object of optional keys).      *)
(***************************************************************************)
EmptyObject ==
    [and |-> None, or |-> None, not |-> None,
     starred |-> None, sharedWithMe |-> None, trashed |-> None,
     modifiedTime |-> None,
     name |-> None, mimeType |-> None, fullText |-> None, parentId |-> None,
     owner |-> None, rawDriveQuery |-> None]

\* a field's value: a plain string or a FieldOperator object
StrVal(s) == [str |-> Some(s), any |-> None, all |-> None, none |-> None]
OpObj(any, all, none) == [str |-> None, any |-> any, all |-> all, none |-> none]

Structured(n) == [str |-> None, obj |-> Some(n)]
RawString(s) == [str |-> Some(s), obj |-> None]

RECURSIVE SeqsUpTo(_, _)
\* the sequences over S of length at most n
SeqsUpTo(S, n) ==
    IF n = 0 THEN {<<>>}
    ELSE LET shorter == SeqsUpTo(S, n - 1)
         IN  shorter \cup {Append(s, x) : s \in {t \in shorter : Len(t) = n - 1}, x \in S}

Chars == {"a", "'", "\\", " ", "(", "\""}
Literals == SeqsUpTo(Chars, MaxLen)

V_a == <<"a">>
V_q == <<"b", "'">>
V_blank == <<" ">>
V_empty == <<>>
D_jan == <<"2","0","2","4","-","0","1","-","0","1">>
D_feb == <<"2","0","2","4","-","0","2","-","0","1">>
R_raw == <<"x","=","'","y","'">>

TreeVals == {V_a, V_q, V_blank, V_empty}
ValLists == SeqsUpTo(TreeVals, MaxVals)

FieldVals ==
    {StrVal(s) : s \in TreeVals \ {V_empty}}
    \cup {OpObj(Some(l), None, None) : l \in ValLists}
    \cup {OpObj(None, Some(l), None) : l \in ValLists}
    \cup {OpObj(None, None, Some(l)) : l \in ValLists}
    \cup {OpObj(None, None, None),
          OpObj(Some(<<V_a>>), Some(<<V_q>>), None),
          OpObj(Some(<<>>), Some(<<V_a>>), None),
          OpObj(None, Some(<<V_a>>), Some(<<V_q>>)),
          OpObj(Some(<<V_a>>), Some(<<V_q>>), Some(<<V_a, V_q>>))}

FieldNames == {"name", "mimeType", "fullText", "parentId", "owner"}

SingleFieldLeaves ==
    {[EmptyObject EXCEPT ![k] = Some(v)] : k \in FieldNames, v \in FieldVals}

LiteralLeaves ==
    {[EmptyObject EXCEPT ![k] = Some(StrVal(s))] :
        k \in {"name", "parentId"}, s \in Literals \ {<<>>}}

OptBool == {None, Some(TRUE), Some(FALSE)}

FlagLeaves ==
    {[EmptyObject EXCEPT !.starred = a, !.sharedWithMe = b, !.trashed = c] :
        a \in OptBool, b \in OptBool, c \in OptBool}

DateRanges ==
    {[gte |-> g, lt |-> l] : g \in {None, Some(D_jan)}, l \in {None, Some(D_feb)}}

MultiKeyLeaves ==
    {[EmptyObject EXCEPT !.starred = a, !.trashed = c, !.modifiedTime = d,
                         !.name = nm, !.owner = ow] :
        a \in OptBool, c \in {None, Some(TRUE)},
        d \in {None} \cup {Some(r) : r \in DateRanges},
        nm \in {None, Some(StrVal(V_a)), Some(OpObj(Some(<<V_blank>>), None, None)),
                Some(OpObj(None, None, Some(<<V_a, V_q>>)))},
        ow \in {None, Some(StrVal(V_q)), Some(OpObj(None, Some(<<V_a, V_q>>), None))}}

N_empty == EmptyObject
N_nameA == [EmptyObject EXCEPT !.name = Some(StrVal(V_a))]
N_nameQ == [EmptyObject EXCEPT !.name = Some(StrVal(V_q))]
N_starT == [EmptyObject EXCEPT !.starred = Some(TRUE)]
N_starF == [EmptyObject EXCEPT !.starred = Some(FALSE)]
N_blankName == [EmptyObject EXCEPT !.name = Some(OpObj(Some(<<V_blank>>), None, None))]
N_emptyDate == [EmptyObject EXCEPT !.modifiedTime = Some([gte |-> None, lt |-> None])]
N_multi ==
    [EmptyObject EXCEPT !.starred = Some(TRUE),
                        !.name = Some(OpObj(Some(<<V_a, V_q>>), None, None))]
N_noneOp == [EmptyObject EXCEPT !.owner = Some(OpObj(None, None, Some(<<V_a, V_q>>)))]
N_raw == [EmptyObject EXCEPT !.rawDriveQuery = Some(R_raw)]
N_rawAndName == [EmptyObject EXCEPT !.rawDriveQuery = Some(R_raw), !.name = Some(StrVal(V_a))]
N_noOp == [EmptyObject EXCEPT !.mimeType = Some(OpObj(None, None, None))]

And(kids) == [EmptyObject EXCEPT !.and = Some(kids)]
Or(kids) == [EmptyObject EXCEPT !.or = Some(kids)]
Not(kid) == [EmptyObject EXCEPT !.not = Some(kid)]

Pool1 == {N_empty, N_nameA, N_starT, N_starF, N_blankName, N_emptyDate}
Pool2 == {N_empty, N_nameQ, N_multi, N_noneOp, N_raw, N_noOp}
Pool3 == {N_empty, N_nameA, N_starF}

Depth1 ==
    {And(l) : l \in SeqsUpTo(Pool1, MaxKids)} \cup {Or(l) : l \in SeqsUpTo(Pool1, MaxKids)}
    \cup {And(l) : l \in SeqsUpTo(Pool2, 2)} \cup {Or(l) : l \in SeqsUpTo(Pool2, 2)}

Mid ==
    Pool3 \cup {Not(n) : n \in Pool3}
    \cup {And(l) : l \in SeqsUpTo(Pool3, 2)} \cup {Or(l) : l \in SeqsUpTo(Pool3, 2)}

Depth2 ==
    {And(l) : l \in SeqsUpTo(Mid, 2) \ {<<>>}} \cup {Or(l) : l \in SeqsUpTo(Mid, 2) \ {<<>>}}

Nots ==
    {Not(n) : n \in Pool1 \cup Pool2 \cup Mid \cup {N_rawAndName}}
    \cup {Not(Not(n)) : n \in Pool3}
    \cup {And(<<N_nameA, Or(<<N_starT, Not(And(<<N_nameQ, N_empty>>))>>)>>)}

\* nodes that carry a combinator together with other keys
Mixed ==
    {[c EXCEPT !.starred = a, !.name = nm] :
        c \in {And(<<>>), And(<<N_nameQ>>), Or(<<N_nameQ, N_starF>>), Not(N_nameQ),
               Not(N_empty)},
        a \in {None, Some(TRUE)},
        nm \in {None, Some(StrVal(V_a))}}
    \cup {[EmptyObject EXCEPT !.and = Some(<<N_nameA>>), !.or = Some(<<N_starT>>)],
          [EmptyObject EXCEPT !.or = Some(<<N_nameA>>), !.not = Some(N_starT)],
          And(<<N_starT, [EmptyObject EXCEPT !.or = Some(<<N_nameQ>>),
                                              !.trashed = Some(TRUE)]>>)}

\* literals that hold parentheses, quotes and backslashes, inside groups
V_open == <<"(", "\\">>
V_close == <<"'", ")", "(">>

ParenTrees ==
    {And(<<Or(<<[EmptyObject EXCEPT !.name = Some(StrVal(V_open))],
               [EmptyObject EXCEPT !.parentId = Some(StrVal(V_close))]>>),
           Not([EmptyObject EXCEPT !.owner = Some(StrVal(V_open))])>>),
     [EmptyObject EXCEPT !.name = Some(OpObj(Some(<<V_open, V_close>>), None, None)),
                         !.fullText = Some(OpObj(None, None, Some(<<V_close, V_open>>)))],
     Or(<<Not(And(<<>>)), [EmptyObject EXCEPT !.name = Some(StrVal(V_close))], N_empty>>)}

Objects ==
    SingleFieldLeaves \cup LiteralLeaves \cup FlagLeaves \cup MultiKeyLeaves
    \cup {N_raw, N_rawAndName} \cup Depth1 \cup Depth2 \cup Nots \cup Mixed \cup ParenTrees

RawStrings ==
    Literals \cup {S_and \o V_a, V_a \o S_or, S_and, <<" ">> \o R_raw \o <<" ">>}

Inputs == {Structured(n) : n \in Objects} \cup {RawString(s) : s \in RawStrings}

\* the inputs of runs with several calls
SeqInputs ==
    {Structured(n) : n \in {N_empty, N_nameA, N_nameQ, N_multi, N_noneOp, N_blankName,
                            N_starF, Or(<<N_starT, N_starF>>), And(<<N_nameA, N_multi>>),
                            [EmptyObject EXCEPT !.trashed = Some(TRUE),
                                                !.sharedWithMe = Some(FALSE),
                                                !.parentId = Some(StrVal(V_a))]}}
    \cup {RawString(V_a), RawString(S_and \o V_q)}

(***************************************************************************)
(* The state machine: calls of toDriveQuery.                               *)
(***************************************************************************)
\* no file-move is in progress
MoveIdle ==
    /\ fileIds = <<>>
    /\ isBatch = FALSE
    /\ metadataResults = <<>>
    /\ filesToMove = <<>>
    /\ moveResults = <<>>
    /\ moved = <<>>
    /\ failed = <<>>
    /\ result = <<>>
    /\ mpc = "idle"

\* the search handler has given nothing back yet
NoReply == [type |-> "none"]

\* a search with the default pageSize and shape, or no search at all
PageIdle ==
    /\ pageSize = <<>>
    /\ shape = "arrays"
    /\ sentPageSize = <<>>
    /\ listed = <<>>

\* no path resolution is in progress
PathIdle ==
    /\ drive = <<>>
    /\ walks = <<>>
    /\ folderCache = <<>>

Init ==
    /\ query \in Inputs
    /\ pc = "called"
    /\ out = NoResult
    /\ prevQuery = None
    /\ keyOrder = <<>>
    /\ prevOut = NoResult
    /\ calls = 1
    /\ tool = "none"
    /\ sent = <<>>
    /\ reply = NoReply
    /\ PageIdle
    /\ MoveIdle
    /\ PathIdle

InitCalls ==
    /\ query \in SeqInputs
    /\ pc = "called"
    /\ out = NoResult
    /\ prevQuery = None
    /\ keyOrder = <<>>
    /\ prevOut = NoResult
    /\ calls = 1
    /\ tool = "none"
    /\ sent = <<>>
    /\ reply = NoReply
    /\ PageIdle
    /\ MoveIdle
    /\ PathIdle

\* one call of toDriveQuery, from entry to its return or throw
ToDriveQuery ==
    /\ pc = "called"
    /\ out' = toDriveQuery(query)
    /\ pc' = IF out'.status = "throw" THEN "thrown" ELSE "returned"
    /\ UNCHANGED <<query, prevQuery, prevOut, calls, keyOrder, searchVars, moveVars, pathVars>>

\* the caller makes its next call
NextCall(q) ==
    /\ pc \in {"returned", "thrown"}
    /\ calls < MaxCalls
    /\ prevQuery' = Some(query)
    /\ prevOut' = out
    /\ query' = q
    /\ out' = NoResult
    /\ pc' = "called"
    /\ calls' = calls + 1
    /\ UNCHANGED <<keyOrder, searchVars, moveVars, pathVars>>

Next == ToDriveQuery

NextCalls ==
    \/ ToDriveQuery
    \/ \E q \in SeqInputs : NextCall(q)

\* the keys of the schema in the order of their declaration
schemaKeys ==
    <<"and", "or", "not", "name", "mimeType", "fullText", "parentId",
      "starred", "sharedWithMe", "trashed", "modifiedTime", "owner", "rawDriveQuery">>

\* the keys node n has, in the order of the schema
keysOf(n) == SelectSeq(schemaKeys, LAMBDA k : Has(n[k]))

Reverse(s) == [i \in 1..Len(s) |-> s[Len(s) + 1 - i]]

\* orders in which a caller may write the keys of n: the order of the schema,
\* its reverse, and the first key moved to the end
KeyOrders(n) ==
    {keysOf(n), Reverse(keysOf(n)), Tail(keysOf(n)) \o <<Head(keysOf(n))>>}

\* the leaves called in several key orders
OrderInputs == {n \in MultiKeyLeaves : NumKeys(n) >= 2}

InitOrder ==
    /\ \E n \in OrderInputs : query = Structured(n) /\ keyOrder \in KeyOrders(n)
    /\ pc = "called"
    /\ out = NoResult
    /\ prevQuery = None
    /\ prevOut = NoResult
    /\ calls = 1
    /\ tool = "none"
    /\ sent = <<>>
    /\ reply = NoReply
    /\ PageIdle
    /\ MoveIdle
    /\ PathIdle

\* the caller calls again with the same keys and values in another key order
Reordered(order) ==
    /\ pc \in {"returned", "thrown"}
    /\ calls < MaxCalls
    /\ order \in KeyOrders(query.obj[1])
    /\ order # keyOrder
    /\ prevQuery' = Some(query)
    /\ prevOut' = out
    /\ keyOrder' = order
    /\ out' = NoResult
    /\ pc' = "called"
    /\ calls' = calls + 1
    /\ UNCHANGED <<query, searchVars, moveVars, pathVars>>

NextOrder ==
    \/ ToDriveQuery
    \/ \E n \in OrderInputs : \E order \in KeyOrders(n) : Reordered(order)

SpecOrder == InitOrder /\ [][NextOrder]_vars

Spec == Init /\ [][Next]_vars

SpecCalls == InitCalls /\ [][NextCalls]_vars

(***************************************************************************)
(* Vocabulary of the properties.                                           *)
(***************************************************************************)
Contains(s, w) == \E i \in 1..(Len(s) - Len(w) + 1) : SubSeq(s, i, i + Len(w) - 1) = w
CountOcc(s, w) ==
    Cardinality({i \in 1..(Len(s) - Len(w) + 1) : SubSeq(s, i, i + Len(w) - 1) = w})
StartsWith(s, w) == Len(s) >= Len(w) /\ SubSeq(s, 1, Len(w)) = w
EndsWith(s, w) == Len(s) >= Len(w) /\ SubSeq(s, Len(s) - Len(w) + 1, Len(s)) = w

IsStructured == Has(query.obj)
Root == query.obj[1]
FlagNames == {"starred", "sharedWithMe", "trashed"}

\* the children of a node, in the order $and, $or, $not
KidsSeq(n) == OptList(n.and) \o OptList(n.or) \o n.not

RECURSIVE Nodes(_)
\* every node of the tree below and including n
Nodes(n) == {n} \cup UNION {Nodes(KidsSeq(n)[i]) : i \in 1..Len(KidsSeq(n))}

HasCombinator(n) == Has(n.and) \/ Has(n.or) \/ Has(n.not)

\* the strings a field value names, whatever the operator
ValuesOf(v) ==
    v.str \o OptList(v.any) \o OptList(v.all) \o OptList(v.none)

\* the strings the deciding operator of a field value names
DecidingValues(v) ==
    IF Has(v.str) THEN v.str
    ELSE IF Has(v.any) THEN v.any[1]
    ELSE IF Has(v.all) THEN v.all[1]
    ELSE IF Has(v.none) THEN v.none[1]
    ELSE <<>>

Range(s) == {s[i] : i \in 1..Len(s)}

IsOperator(v) == ~Has(v.str) /\ (Has(v.any) \/ Has(v.all) \/ Has(v.none))

\* a field operator with a single array, whose values are all blank
BlankOperator(v) ==
    /\ ~Has(v.str)
    /\ Cardinality({o \in {"any", "all", "none"} : Has(v[o])}) = 1
    /\ \A s \in Range(DecidingValues(v)) : ~NonBlank(s)

\* no rawDriveQuery and no field operator object without an operator
PlainTree(n) ==
    \A m \in Nodes(n) :
        /\ ~Has(m.rawDriveQuery)
        /\ \A k \in FieldNames : Has(m[k]) => (Has(m[k][1].str) \/ IsOperator(m[k][1]))

DegenerateNode(m) ==
    \/ m = EmptyObject
    \/ \E k \in FieldNames : Has(m[k]) /\ BlankOperator(m[k][1])

\* a leaf all of whose keys are fields with blank operators
AllBlankLeaf(m) ==
    /\ NumKeys(m) >= 1
    /\ \A k \in ObjectKeys : Has(m[k]) => (k \in FieldNames /\ BlankOperator(m[k][1]))

\* the fragment of one value of a field
Fragment(k, v) ==
    CASE k = "name" -> S_nameContains \o quote(v)
      [] k = "mimeType" -> S_mimeTypeEq \o quote(v)
      [] k = "fullText" -> S_fullTextContains \o quote(v)
      [] k = "parentId" -> quote(v) \o S_inParents
      [] k = "owner" -> quote(v) \o S_inOwners

\* the text that marks one fragment of a field in q
Marker(k) ==
    CASE k = "name" -> S_nameContains \o <<"'">>
      [] k = "mimeType" -> S_mimeTypeEq \o <<"'">>
      [] k = "fullText" -> S_fullTextContains \o <<"'">>
      [] k = "parentId" -> <<"'">> \o S_inParents
      [] k = "owner" -> <<"'">> \o S_inOwners

FilterKey(k) ==
    CASE k = "name" -> "nameIncludes"
      [] k = "mimeType" -> "mimeTypeIncludes"
      [] k = "fullText" -> "fullTextIncludes"
      [] k = "parentId" -> "parentIdIncludes"
      [] k = "owner" -> "ownerIncludes"

\* the fragment of a boolean flag
FlagFragment(f, b) ==
    CASE f = "starred" -> S_starredEq \o BoolStr(b)
      [] f = "sharedWithMe" -> S_sharedWithMeEq \o BoolStr(b)
      [] f = "trashed" -> S_trashedEq \o BoolStr(b)

\* a node whose only key is a field with a plain string value
SinglePlainLeaf(n) ==
    /\ NumKeys(n) = 1
    /\ \E k \in FieldNames : Has(n[k]) /\ Has(n[k][1].str)

LeafKey(n) == CHOOSE k \in FieldNames : Has(n[k])
LeafValue(n) == n[LeafKey(n)][1].str[1]

(***************************************************************************)
(* C1: toDriveQuery never throws on degenerate-but-valid input: the empty  *)
(* object, or a field whose operator array is empty or all blank, at the   *)
(* root or nested, alone in its node or not; such a piece contributes the  *)
(* empty string, and {} gives q = "" and filters = {}.                     *)
(***************************************************************************)
C1_DegenerateInputNeverThrows ==
    (/\ pc # "called"
     /\ IsStructured
     /\ PlainTree(Root)
     /\ \E m \in Nodes(Root) : DegenerateNode(m))
    => /\ out.status = "ok"
       /\ (Root = EmptyObject => out.q = <<>> /\ out.filters = EmptyFilters)
       /\ (AllBlankLeaf(Root) => out.q = <<>>)

(***************************************************************************)
(* C2: for every well-formed structured expression, whatever the number    *)
(* and position of empty children, q neither starts nor ends with a        *)
(* dangling and/or token.                                                  *)
(***************************************************************************)
StartsDangling(q) ==
    \/ q \in {W_and, W_or}
    \/ StartsWith(q, W_and \o <<" ">>)
    \/ StartsWith(q, W_or \o <<" ">>)

EndsDangling(q) ==
    \/ q \in {W_and, W_or}
    \/ EndsWith(q, <<" ">> \o W_and)
    \/ EndsWith(q, <<" ">> \o W_or)

C2_NoDanglingOperator ==
    (pc = "returned" /\ IsStructured /\ PlainTree(Root))
    => (~StartsDangling(out.q) /\ ~EndsDangling(out.q))

(***************************************************************************)
(* C3: a node that carries a combinator and leaf conditions emits both,    *)
(* ANDed, and its leaf values and flags are recorded in filters.           *)
(***************************************************************************)
C3_MixedNodeKeepsLeafConditions ==
    (pc = "returned" /\ IsStructured /\ HasCombinator(Root))
    => /\ \A f \in FlagNames :
            Has(Root[f]) =>
                /\ Has(out.filters[f])
                /\ Contains(out.q, FlagFragment(f, Root[f][1]))
       /\ \A k \in FieldNames :
            (Has(Root[k]) /\ Has(Root[k][1].str) /\ NonBlank(Root[k][1].str[1])) =>
                /\ Contains(out.q, Fragment(k, Root[k][1].str[1]))
                /\ Root[k][1].str[1] \in Range(OptList(out.filters[FilterKey(k)]))

(***************************************************************************)
(* C4: a structured node that contains rawDriveQuery, at the root or       *)
(* nested, has its raw fragment emitted character for character in q;      *)
(* the call does not throw and the fragment adds nothing to filters.       *)
(***************************************************************************)
OnlyRaw(n) == NumKeys(n) = 1 /\ Has(n.rawDriveQuery)

C4_RawFragmentEmittedVerbatim ==
    (/\ pc # "called"
     /\ IsStructured
     /\ \E m \in Nodes(Root) : Has(m.rawDriveQuery)
     /\ \A m \in Nodes(Root) : \A k \in FieldNames :
            Has(m[k]) => (Has(m[k][1].str) \/ IsOperator(m[k][1])))
    => /\ out.status = "ok"
       /\ \A m \in Nodes(Root) :
            Has(m.rawDriveQuery) => Contains(out.q, m.rawDriveQuery[1])
       /\ (OnlyRaw(Root) => out.q = Root.rawDriveQuery[1] /\ out.filters = EmptyFilters)

(***************************************************************************)
(* C5: a plain string input comes back unchanged as q (not escaped, not    *)
(* trimmed, no and/or token stripped), with empty filters.                 *)
(***************************************************************************)
C5_StringPassesThrough ==
    (pc # "called" /\ Has(query.str))
    => /\ pc = "returned"
       /\ out.status = "ok"
       /\ out.q = query.str[1]
       /\ out.filters = EmptyFilters

\* a string the clean-up of the structured path would have changed
C5_Witness ==
    pc = "returned" /\ query = RawString(S_and \o V_a) /\ out.q = S_and \o V_a

(***************************************************************************)
(* C6: toDriveQuery is a pure function of its argument: a call leaves its  *)
(* argument as it was, a call with the argument of the call before         *)
(* returns what that call returned, and every value and flag in filters    *)
(* comes from the expression of this call.                                 *)
(***************************************************************************)
\* the strings field k names anywhere in the tree
TreeValues(n, k) ==
    UNION {Range(ValuesOf(m[k][1])) : m \in {x \in Nodes(n) : Has(x[k])}}

\* the values flag f has anywhere in the tree
TreeFlags(n, f) == {m[f][1] : m \in {x \in Nodes(n) : Has(x[f])}}

SameAsBefore == (Has(prevQuery) /\ prevQuery[1] = query) => out = prevOut

OwnValuesOnly ==
    IF ~IsStructured THEN out.filters = EmptyFilters
    ELSE /\ \A k \in FieldNames :
              Range(OptList(out.filters[FilterKey(k)])) \subseteq TreeValues(Root, k)
         /\ \A f \in FlagNames :
              Has(out.filters[f]) => out.filters[f][1] \in TreeFlags(Root, f)

\* C6: a call leaves its argument unchanged, repeats the result of the call
\* before on the same argument, and records only values of this argument.
C6_PureFunction ==
    [][(pc = "called" /\ pc' # "called")
       => (query' = query /\ SameAsBefore' /\ OwnValuesOnly')]_vars

\* the second of two calls with the same expression, which records values
\* and a flag
C6_Witness ==
    /\ pc = "returned"
    /\ calls = 2
    /\ prevQuery = Some(query)
    /\ query = Structured(N_multi)
    /\ out.filters.nameIncludes = Some(<<V_a, V_q>>)
    /\ out.filters.starred = Some(TRUE)

(***************************************************************************)
(* C7: each list of filters is exactly the sequence of raw values of its   *)
(* field that were compiled into a fragment of q, in traversal order with  *)
(* duplicates, values under $not and $none included, dropped blanks        *)
(* excluded; a field with no compiled value has no key.                    *)
(***************************************************************************)
RECURSIVE Compiled(_, _)
RECURSIVE CompiledList(_, _)
\* the values of field k that reach a fragment, in traversal order
Compiled(k, n) ==
    IF Has(n.and) THEN CompiledList(k, n.and[1])
    ELSE IF Has(n.or) THEN CompiledList(k, n.or[1])
    ELSE IF Has(n.not) THEN Compiled(k, n.not[1])
    ELSE IF Has(n[k]) THEN filterNonBlank(DecidingValues(n[k][1]))
    ELSE <<>>

CompiledList(k, kids) ==
    IF kids = <<>> THEN <<>> ELSE Compiled(k, kids[1]) \o CompiledList(k, Tail(kids))

\* C7: each filters list is the sequence of compiled raw values of its field,
\* and the key is absent when that sequence is empty.
C7_FilterListsAreCompiledValues ==
    (pc = "returned" /\ IsStructured)
    => \A k \in FieldNames :
          /\ out.filters[FilterKey(k)] # Some(<<>>)
          /\ OptList(out.filters[FilterKey(k)]) = Compiled(k, Root)
          /\ CountOcc(out.q, Marker(k)) = Len(OptList(out.filters[FilterKey(k)]))
          /\ \A v \in Range(OptList(out.filters[FilterKey(k)])) :
                NonBlank(v) /\ Contains(out.q, Fragment(k, v))

\* values under $not and under $none, one of them with a quote
C7_Witness ==
    /\ pc = "returned"
    /\ query = Structured(Not(N_noneOp))
    /\ out.filters.ownerIncludes = Some(<<V_a, V_q>>)
    /\ out.filters.nameIncludes = None

(***************************************************************************)
(* C8: each boolean flag of filters holds the value of the last node in    *)
(* traversal order that carries it anywhere in the tree, and is absent     *)
(* iff no node of the tree carries it.                                     *)
(***************************************************************************)
RECURSIVE Carried(_, _)
RECURSIVE CarriedList(_, _)
\* the values of flag f in the tree, in traversal order
Carried(f, n) == n[f] \o CarriedList(f, KidsSeq(n))

CarriedList(f, kids) ==
    IF kids = <<>> THEN <<>> ELSE Carried(f, kids[1]) \o CarriedList(f, Tail(kids))

LastOpt(s) == IF s = <<>> THEN None ELSE Some(s[Len(s)])

\* C8: each flag of filters is the last value carried in traversal order, and
\* is absent iff no node carries the flag.
C8_FlagsLastSeenWins ==
    (pc = "returned" /\ IsStructured)
    => \A f \in FlagNames : out.filters[f] = LastOpt(Carried(f, Root))

(***************************************************************************)
(* C9: the literal of a value v is a quote, v with a backslash put before  *)
(* each single quote and every other character unchanged, and a quote.     *)
(***************************************************************************)
\* the literal inside the fragment q of field k
LiteralIn(k, q) ==
    CASE k = "name" -> SubSeq(q, Len(S_nameContains) + 1, Len(q))
      [] k = "mimeType" -> SubSeq(q, Len(S_mimeTypeEq) + 1, Len(q))
      [] k = "fullText" -> SubSeq(q, Len(S_fullTextContains) + 1, Len(q))
      [] k = "parentId" -> SubSeq(q, 1, Len(q) - Len(S_inParents))
      [] k = "owner" -> SubSeq(q, 1, Len(q) - Len(S_inOwners))

QuotesBefore(v, i) == Cardinality({j \in 1..(i - 1) : v[j] = "'"})

\* lit is v between quotes, each quote of v preceded by one backslash
IsEscapedLiteral(lit, v) ==
    /\ Len(lit) = Len(v) + QuotesBefore(v, Len(v) + 1) + 2
    /\ lit[1] = "'"
    /\ lit[Len(lit)] = "'"
    /\ \A i \in 1..Len(v) :
          IF v[i] = "'"
          THEN /\ lit[1 + i + QuotesBefore(v, i)] = "\\"
               /\ lit[2 + i + QuotesBefore(v, i)] = "'"
          ELSE lit[1 + i + QuotesBefore(v, i)] = v[i]

\* C9: the literal is the value between quotes with a backslash before each
\* single quote and nothing else changed.
C9_LiteralEscapesOnlyQuotes ==
    (pc = "returned" /\ IsStructured /\ SinglePlainLeaf(Root))
    => IsEscapedLiteral(LiteralIn(LeafKey(Root), out.q), LeafValue(Root))

\* a value with two quotes and a backslash
C9_Witness ==
    /\ pc = "returned"
    /\ query = Structured([EmptyObject EXCEPT !.name = Some(StrVal(<<"'", "\\", "'">>))])
    /\ out.q = S_nameContains \o <<"'", "\\", "'", "\\", "\\", "'", "'">>

Chained(op, frs) ==
    LET kept == SelectSeq(frs, NonBlank)
    IN  IF Len(kept) = 0 THEN <<>>
        ELSE IF Len(kept) = 1 THEN kept[1]
        ELSE <<"(">> \o join(kept, op) \o <<")">>

\* the fragments of the values vs of field k, blank values dropped
ValueFragments(k, vs) ==
    LET kept == SelectSeq(vs, NonBlank)
    IN  [i \in 1..Len(kept) |-> Fragment(k, kept[i])]

\* a field value that is a plain string, or an operator with $any or $all alone
AnyOrAllOnly(v) ==
    \/ Has(v.str)
    \/ ~Has(v.str) /\ Has(v.any) /\ ~Has(v.all) /\ ~Has(v.none)
    \/ ~Has(v.str) /\ ~Has(v.any) /\ Has(v.all) /\ ~Has(v.none)

\* the fragment of such a field value
FieldChained(k, v) ==
    IF Has(v.str) THEN Chained(S_or, ValueFragments(k, v.str))
    ELSE IF Has(v.any) THEN Chained(S_or, ValueFragments(k, v.any[1]))
    ELSE Chained(S_and, ValueFragments(k, v.all[1]))

\* the fragment of a date range
DateChained(d) ==
    Chained(S_and, (IF Has(d.gte) /\ d.gte[1] # <<>>
                    THEN << S_modifiedTimeGte \o d.gte[1] \o <<"'">> >> ELSE <<>>)
                   \o (IF Has(d.lt) /\ d.lt[1] # <<>>
                       THEN << S_modifiedTimeLt \o d.lt[1] \o <<"'">> >> ELSE <<>>))

\* the leaf fragments of node n in the order of emission: flags, date
\* range, fields
LeafFragments(n) ==
    (IF Has(n.starred) THEN <<FlagFragment("starred", n.starred[1])>> ELSE <<>>)
    \o (IF Has(n.sharedWithMe)
        THEN <<FlagFragment("sharedWithMe", n.sharedWithMe[1])>> ELSE <<>>)
    \o (IF Has(n.trashed) THEN <<FlagFragment("trashed", n.trashed[1])>> ELSE <<>>)
    \o (IF Has(n.modifiedTime) THEN <<DateChained(n.modifiedTime[1])>> ELSE <<>>)
    \o [i \in 1..Len(SelectSeq(fieldKeys, LAMBDA k : Has(n[k]))) |->
          FieldChained(SelectSeq(fieldKeys, LAMBDA k : Has(n[k]))[i],
                       n[SelectSeq(fieldKeys, LAMBDA k : Has(n[k]))[i]][1])]

\* a node without combinator and without rawDriveQuery whose fields are
\* plain strings or $any/$all operators
ChainLeaf(n) ==
    /\ ~HasCombinator(n)
    /\ ~Has(n.rawDriveQuery)
    /\ \A k \in FieldNames : Has(n[k]) => AnyOrAllOnly(n[k][1])

\* C11: a leaf node at the root yields the chain of its fragments, each
\* field contributing the chain of the fragments of its non-blank values.
C11_ChainingRule ==
    (pc # "called" /\ IsStructured /\ ChainLeaf(Root))
    => /\ out.status = "ok"
       /\ out.q = Chained(S_and, LeafFragments(Root))

\* the same with a fragment left: the part of the rule the code follows
C11_Holds ==
    (/\ pc # "called" /\ IsStructured /\ ChainLeaf(Root)
     /\ SelectSeq(LeafFragments(Root), NonBlank) # <<>>)
    => /\ out.status = "ok"
       /\ out.q = Chained(S_and, LeafFragments(Root))

(***************************************************************************)
(* C12: a field whose operator is $none with one or more non-blank values  *)
(* has the fragment "not (" + the OR-chain of the fragments of its values  *)
(* + ")"; every value under $none is a disjunct of the negated group.      *)
(***************************************************************************)
\* a field operator with $none alone and a non-blank value in it
NoneOnly(v) ==
    /\ ~Has(v.str) /\ ~Has(v.any) /\ ~Has(v.all) /\ Has(v.none)
    /\ SelectSeq(v.none[1], NonBlank) # <<>>

\* the fragment the claim gives such a field
NoneFragment(k, v) ==
    S_not \o <<"(">> \o Chained(S_or, ValueFragments(k, v.none[1])) \o <<")">>

\* C12: in a leaf node the $none field has that fragment: it is q when the
\* field is the only key, and a part of q otherwise, with the fragment of
\* every non-blank value in it.
C12_NoneIsNegatedOrChain ==
    (pc # "called" /\ IsStructured /\ ~HasCombinator(Root) /\ ~Has(Root.rawDriveQuery))
    => \A k \in FieldNames :
         (Has(Root[k]) /\ NoneOnly(Root[k][1])
          /\ \A j \in FieldNames : Has(Root[j]) => IsOperator(Root[j][1]) \/ Has(Root[j][1].str))
         => /\ out.status = "ok"
            /\ Contains(out.q, NoneFragment(k, Root[k][1]))
            /\ (NumKeys(Root) = 1 => out.q = NoneFragment(k, Root[k][1]))
            /\ \A i \in 1..Len(Root[k][1].none[1]) :
                 NonBlank(Root[k][1].none[1][i])
                 => Contains(out.q, Fragment(k, Root[k][1].none[1][i]))

\* two values under $none, one of them with a quote
C12_Witness ==
    /\ pc = "returned"
    /\ query = Structured(N_noneOp)
    /\ out.q = S_not \o <<"(", "(", "'", "a", "'">> \o S_inOwners \o S_or
                 \o <<"'", "b", "\\", "'", "'">> \o S_inOwners \o <<")", ")">>

(***************************************************************************)
(* C13: a $and/$or at the root emits its children joined by the keyword    *)
(* with no enclosing parentheses; the same node anywhere below the root    *)
(* is emitted in exactly one pair of parentheses, for any number of        *)
(* children.                                                               *)
(***************************************************************************)
\* a leaf that emit compiles without throwing: the empty object, or a node
\* with a flag, a date range or a field with a non-blank value
LeafReturns(n) ==
    \/ NumKeys(n) = 0
    \/ Has(n.starred) \/ Has(n.sharedWithMe) \/ Has(n.trashed) \/ Has(n.modifiedTime)
    \/ \E k \in FieldNames : Has(n[k]) /\ NonBlank(FieldChained(k, n[k][1]))

\* a node that is $and alone or $or alone
PureGroup(n) ==
    /\ NumKeys(n) = 1
    /\ Has(n.and) \/ Has(n.or)

\* a tree of such groups over leaves that compile
GroupTree(n) ==
    \A m \in Nodes(n) : PureGroup(m) \/ (ChainLeaf(m) /\ LeafReturns(m))

Keyword(n) == IF Has(n.and) THEN S_and ELSE S_or

RECURSIVE Nested(_)
\* what a node below the root is emitted as: a group in one pair of
\* parentheses, a leaf as the chain of its fragments
Nested(n) ==
    IF PureGroup(n)
    THEN <<"(">> \o join([i \in 1..Len(KidsSeq(n)) |-> Nested(KidsSeq(n)[i])], Keyword(n))
                \o <<")">>
    ELSE Chained(S_and, LeafFragments(n))

\* the first and the last child of the root emit something, so that the
\* joined text neither starts nor ends with the keyword
EndsEmit(n) ==
    \/ KidsSeq(n) = <<>>
    \/ /\ NonBlank(Nested(KidsSeq(n)[1]))
       /\ NonBlank(Nested(KidsSeq(n)[Len(KidsSeq(n))]))

\* C13: q of a root group is the emissions of its children joined by the
\* keyword, nothing around them, each nested group being in its own pair
\* of parentheses.
C13_RootGroupBareNestedGroupParenthesized ==
    (/\ pc # "called" /\ IsStructured
     /\ PureGroup(Root) /\ GroupTree(Root) /\ EndsEmit(Root))
    => /\ out.status = "ok"
       /\ out.q = join([i \in 1..Len(KidsSeq(Root)) |-> Nested(KidsSeq(Root)[i])],
                       Keyword(Root))

\* a root $and over a nested $or of two children and a leaf
C13_Witness ==
    /\ pc = "returned"
    /\ query = Structured(And(<<Or(<<N_nameA, N_starF>>), N_nameA>>))
    /\ out.q = <<"(">> \o S_nameContains \o <<"'", "a", "'">> \o S_or
                 \o S_starredEq \o S_false \o <<")">> \o S_and
                 \o S_nameContains \o <<"'", "a", "'">>

(***************************************************************************)
(* C14: for a $not node the emission of its child is wrapped in            *)
(* parentheses and prefixed with "not ", whatever the child is: a single   *)
(* leaf, a leaf of several keys, a group, the empty object.                *)
(***************************************************************************)
\* a node that is $not alone
PureNot(n) == NumKeys(n) = 1 /\ Has(n.not)

\* C14: q of a root $not over a child that compiles is "not (" + the
\* child's emission + ")".
C14_NotWrapsChild ==
    (/\ pc # "called" /\ IsStructured
     /\ PureNot(Root) /\ GroupTree(Root.not[1]))
    => /\ out.status = "ok"
       /\ out.q = S_not \o <<"(">> \o Nested(Root.not[1]) \o <<")">>

(***************************************************************************)
(* C15: date range.  modifiedTime with $gte alone gives                    *)
(* "modifiedTime >= '<gte>'", with $lt alone "modifiedTime < '<lt>'", with *)
(* both the two joined by " and " in a pair of parentheses of their own,   *)
(* as one fragment of the node whatever its other fragments; with neither  *)
(* bound it contributes nothing.                                           *)
(***************************************************************************)
GteFragment(d) == S_modifiedTimeGte \o d.gte[1] \o <<"'">>
LtFragment(d) == S_modifiedTimeLt \o d.lt[1] \o <<"'">>

\* the fragment of a date range, case by case
DateFragment(d) ==
    IF Has(d.gte) /\ Has(d.lt)
    THEN <<"(">> \o GteFragment(d) \o S_and \o LtFragment(d) \o <<")">>
    ELSE IF Has(d.gte) THEN GteFragment(d)
    ELSE IF Has(d.lt) THEN LtFragment(d)
    ELSE <<>>

\* the fragments of node n before and after its date range
FragmentsBeforeDate(n) ==
    LeafFragments([EmptyObject EXCEPT !.starred = n.starred,
                                      !.sharedWithMe = n.sharedWithMe,
                                      !.trashed = n.trashed])
FragmentsAfterDate(n) ==
    LeafFragments([n EXCEPT !.starred = None, !.sharedWithMe = None,
                            !.trashed = None, !.modifiedTime = None])

\* C15: a leaf with a date range yields the chain of its flag fragments,
\* the fragment of the range and its field fragments; the range alone is q
\* as it is, and a range without bounds leaves q as without the key.
C15_DateRangeFragment ==
    (/\ pc # "called" /\ IsStructured
     /\ ChainLeaf(Root) /\ Has(Root.modifiedTime))
    => /\ out.status = "ok"
       /\ out.q = Chained(S_and, FragmentsBeforeDate(Root)
                                  \o <<DateFragment(Root.modifiedTime[1])>>
                                  \o FragmentsAfterDate(Root))
       /\ (NumKeys(Root) = 1 => out.q = DateFragment(Root.modifiedTime[1]))
       /\ (DateFragment(Root.modifiedTime[1]) = <<>>
           => out.q = Chained(S_and, FragmentsBeforeDate(Root) \o FragmentsAfterDate(Root)))

\* both bounds beside a flag and a field
C15_Witness ==
    /\ pc = "returned"
    /\ query = Structured([EmptyObject EXCEPT
                             !.starred = Some(TRUE),
                             !.modifiedTime = Some([gte |-> Some(D_jan), lt |-> Some(D_feb)]),
                             !.name = Some(StrVal(V_a))])
    /\ out.q = <<"(">> \o S_starredEq \o S_true \o S_and
                 \o <<"(">> \o S_modifiedTimeGte \o D_jan \o <<"'">> \o S_and
                 \o S_modifiedTimeLt \o D_feb \o <<"'", ")">> \o S_and
                 \o S_nameContains \o <<"'", "a", "'", ")">>

(***************************************************************************)
(* C16: for a field operator with more than one of $any, $all, $none, the  *)
(* call processes every operator that is present, in the order $any,       *)
(* $all, $none, so that the values of each of them are in q and in         *)
(* filters.                                                                *)
(***************************************************************************)
\* a field operator object with more than one operator
SeveralOperators(v) ==
    /\ ~Has(v.str)
    /\ Cardinality({o \in {"any", "all", "none"} : Has(v[o])}) > 1

\* the non-blank values of all the operators of v, in the order $any, $all, $none
AllOperatorValues(v) ==
    SelectSeq(OptList(v.any) \o OptList(v.all) \o OptList(v.none), NonBlank)

\* C16: a leaf whose only key is a field with several operators returns
\* with the fragment of every non-blank value in q and the values of all
\* operators, in that order, in the filters list of the field.
C16_EveryOperatorProcessed ==
    (/\ pc # "called" /\ IsStructured /\ NumKeys(Root) = 1
     /\ \E k \in FieldNames : Has(Root[k]) /\ SeveralOperators(Root[k][1])
     /\ AllOperatorValues(Root[LeafKey(Root)][1]) # <<>>)
    => /\ out.status = "ok"
       /\ \A x \in Range(AllOperatorValues(Root[LeafKey(Root)][1])) :
            Contains(out.q, Fragment(LeafKey(Root), x))
       /\ out.filters[FilterKey(LeafKey(Root))]
            = Some(AllOperatorValues(Root[LeafKey(Root)][1]))

(***************************************************************************)
(* C17: a leaf field whose operator object has none of $any, $all, $none   *)
(* (name: {}) makes toDriveQuery throw an error that identifies the        *)
(* operator, and a call either returns a complete {q, filters} or throws:  *)
(* there is no partial result.                                             *)
(***************************************************************************)
\* a field of node m with an operator object without operator
NoOperatorField(m) ==
    \E k \in FieldNames : Has(m[k]) /\ ~Has(m[k][1].str) /\ ~IsOperator(m[k][1])

RECURSIVE Visited(_)
\* the leaves the traversal compiles: a node with $and, $or or $not stands
\* for the children of the first of them
Visited(n) ==
    IF Has(n.and) THEN UNION {Visited(n.and[1][i]) : i \in 1..Len(n.and[1])}
    ELSE IF Has(n.or) THEN UNION {Visited(n.or[1][i]) : i \in 1..Len(n.or[1])}
    ELSE IF Has(n.not) THEN Visited(n.not[1])
    ELSE {n}

\* C17: (1) a finished call has returned q and filters without error, or
\* thrown with neither; (2) a visited leaf with such a field makes the call
\* throw; (3) the error names the operator, {}, when every other visited
\* leaf compiles.
C17_NoOperatorThrowsAllOrNothing ==
    (pc # "called")
    => /\ \/ pc = "returned" /\ out.status = "ok" /\ out.error = ""
          \/ /\ pc = "thrown" /\ out.status = "throw" /\ out.error # ""
             /\ out.q = <<>> /\ out.filters = EmptyFilters
       /\ (IsStructured /\ \E m \in Visited(Root) : NoOperatorField(m))
          => /\ pc = "thrown"
             /\ (\A m \in Visited(Root) :
                    NoOperatorField(m) \/ (ChainLeaf(m) /\ LeafReturns(m)))
                => out.error = "Unknown field operator {}"

\* the throw comes after a sibling has pushed a value
C17_Witness ==
    /\ pc = "thrown"
    /\ query = Structured(And(<<N_nameQ, N_noOp>>))
    /\ out.error = "Unknown field operator {}"
    /\ out.filters = EmptyFilters

(***************************************************************************)
(* The handlers of files-search and folder-search: the q they hand to      *)
(* drive.files.list.                                                       *)
(***************************************************************************)
S_trashedFalse == <<"t","r","a","s","h","e","d"," ","="," ","f","a","l","s","e">>
S_closeAnd == <<")"," ","a","n","d"," ">>
S_mimeTypeIs == <<"m","i","m","e","T","y","p","e","=","'">>
folderMimeType == <<"a","p","p","l","i","c","a","t","i","o","n","/","v","n","d",".","g","o","o","g","l","e","-","a","p","p","s",".","f","o","l","d","e","r">>

\* `(${q}) and trashed = false`
filesWrapped(q) == <<"(">> \o q \o S_closeAnd \o S_trashedFalse

\* `mimeType='${folderMimeType}' and trashed = false`
folderFixed == S_mimeTypeIs \o folderMimeType \o <<"'">> \o S_and \o S_trashedFalse

\* `(${q}) and mimeType='${folderMimeType}' and trashed = false`
folderWrapped(q) == <<"(">> \o q \o S_closeAnd \o folderFixed

\* a structured query that always gets the parentheses, compiled to '' or not
filesStructured_AlwaysWrapped(r) ==
    IF r.status = "throw" THEN [sent |-> None, out |-> r]
    ELSE [sent |-> Some(filesWrapped(r.q)), out |-> r]

\* files-search once toDriveQuery has returned r (or thrown):
\* qStr = q ? `(${q}) and trashed = false` : 'trashed = false'
filesStructured(r) ==
    IF r.status = "throw" THEN [sent |-> None, out |-> r]
    ELSE [sent |-> Some(IF r.q # <<>> THEN filesWrapped(r.q) ELSE S_trashedFalse),
          out |-> r]

\* folder-search once toDriveQuery has returned r (or thrown)
folderStructured(r) ==
    IF r.status = "throw" THEN [sent |-> None, out |-> r]
    ELSE [sent |-> Some(IF r.q # <<>> THEN folderWrapped(r.q) ELSE folderFixed),
          out |-> r]

\* 'rawDriveQuery' in query && query.rawDriveQuery
hasRawDriveQuery(qry) ==
    Has(qry.obj) /\ Has(qry.obj[1].rawDriveQuery) /\ qry.obj[1].rawDriveQuery[1] # <<>>

\* qStr of files-search: a string and a rawDriveQuery go in as they are, any
\* other object is compiled
filesQStr(qry) ==
    IF Has(qry.str) THEN [sent |-> Some(filesWrapped(qry.str[1])), out |-> NoResult]
    ELSE IF hasRawDriveQuery(qry)
         THEN [sent |-> Some(filesWrapped(qry.obj[1].rawDriveQuery[1])), out |-> NoResult]
    ELSE filesStructured(toDriveQuery(qry))

\* qStr of folder-search, whose query is optional (<<>> when absent)
folderQStr(qry) ==
    IF qry = None THEN [sent |-> Some(folderFixed), out |-> NoResult]
    ELSE IF Has(qry.str) THEN [sent |-> Some(folderWrapped(qry.str[1])), out |-> NoResult]
    ELSE IF hasRawDriveQuery(qry)
         THEN [sent |-> Some(folderWrapped(qry.obj[1].rawDriveQuery[1])), out |-> NoResult]
    ELSE folderStructured(toDriveQuery(qry))

(***************************************************************************)
(* Numbers as JavaScript has them, as far as pageSize needs them: NaN, the *)
(* two infinities, and the finite values that are a whole number of halves *)
(* (h is twice the value).                                                 *)
(***************************************************************************)
MaxPageSize == 1000
DefaultPageSize == 50

Finite(h) == [kind |-> "finite", h |-> h]
NaN == [kind |-> "NaN", h |-> 0]
PosInfinity == [kind |-> "+Infinity", h |-> 0]
NegInfinity == [kind |-> "-Infinity", h |-> 0]
Whole(n) == Finite(2 * n)

\* pageSize = 50 in the parameter list, then pageSize || 50
orDefault(ps) ==
    IF ps = None THEN Whole(DefaultPageSize)
    ELSE IF ps[1].kind = "NaN" \/ (ps[1].kind = "finite" /\ ps[1].h = 0)
         THEN Whole(DefaultPageSize)
    ELSE ps[1]

\* a floor that leaves the fraction in place
floor_Identity(x) == x

\* Math.floor
floor(x) == IF x.kind = "finite" THEN Finite(2 * (x.h \div 2)) ELSE x

\* Math.min(1000, x)
minMax(x) ==
    CASE x.kind = "NaN" -> x
      [] x.kind = "+Infinity" -> Whole(MaxPageSize)
      [] x.kind = "-Infinity" -> x
      [] OTHER -> IF x.h > 2 * MaxPageSize THEN Whole(MaxPageSize) ELSE x

\* Math.max(1, x)
maxOne(x) ==
    CASE x.kind = "NaN" -> x
      [] x.kind = "+Infinity" -> x
      [] x.kind = "-Infinity" -> Whole(1)
      [] OTHER -> IF x.h < 2 THEN Whole(1) ELSE x

\* Math.max(1, Math.min(1000, Math.floor(pageSize || 50)))
validPageSize(ps) == maxOne(minMax(floor(orDefault(ps))))

(***************************************************************************)
(* The catch block of the search handlers.  An error message is a sequence *)
(* of parts whose concatenation is the text: the text of a Drive error is  *)
(* one part; the text of a toDriveQuery error is its fixed words and then  *)
(* JSON.stringify of the node or operator, of which the parts are the      *)
(* string values (the punctuation and the keys between them hold no space  *)
(* and no letter sequence of the patterns below, and JSON escaping changes *)
(* only quotes, backslashes and control characters, which no pattern has;  *)
(* every pattern holds a space, so it occurs in the text exactly when it   *)
(* occurs in one part).                                                    *)
(***************************************************************************)
P_InvalidValue == <<"I", "n", "v", "a", "l", "i", "d", " ", "V", "a", "l", "u", "e">>
P_Invalidvalue == <<"I", "n", "v", "a", "l", "i", "d", " ", "v", "a", "l", "u", "e">>
P_FileNotFound == <<"F", "i", "l", "e", " ", "n", "o", "t", " ", "f", "o", "u", "n", "d">>
P_BadRequest == <<"B", "a", "d", " ", "R", "e", "q", "u", "e", "s", "t">>
S_UnknownNode == <<"U", "n", "k", "n", "o", "w", "n", " ", "n", "o", "d", "e", ":", " ">>
S_UnknownFieldOperator == <<"U", "n", "k", "n", "o", "w", "n", " ", "f", "i", "e", "l", "d", " ", "o", "p", "e", "r", "a", "t", "o", "r", " ", "{", "}">>

ValidationPatterns == {P_InvalidValue, P_Invalidvalue, P_FileNotFound, P_BadRequest}

\* message.includes(pattern)
includes(message, pattern) ==
    \E i \in 1..Len(message) :
        \E k \in 1..(Len(message[i]) - Len(pattern) + 1) :
            SubSeq(message[i], k, k + Len(pattern) - 1) = pattern

isDriveValidationError(message) ==
    \E pattern \in ValidationPatterns : includes(message, pattern)

\* the string values JSON.stringify writes for a field value
valueStrings(v) ==
    IF v = None THEN <<>>
    ELSE v[1].str \o OptList(v[1].any) \o OptList(v[1].all) \o OptList(v[1].none)

\* the string values JSON.stringify writes for a node without children
nodeStrings(n) ==
    valueStrings(n.name) \o valueStrings(n.mimeType) \o valueStrings(n.fullText)
    \o valueStrings(n.parentId) \o valueStrings(n.owner)
    \o (IF Has(n.modifiedTime) THEN n.modifiedTime[1].gte \o n.modifiedTime[1].lt ELSE <<>>)
    \o n.rawDriveQuery

\* the first child whose emit throws
firstThrowing(arr) ==
    arr[CHOOSE i \in 1..Len(arr) :
            /\ emit(arr[i], NewAccumulators).err # ""
            /\ \A j \in 1..(i - 1) : emit(arr[j], NewAccumulators).err = ""]

RECURSIVE thrower(_)
\* the node at which the emit of n throws
thrower(n) ==
    IF Has(n.and) THEN thrower(firstThrowing(n.and[1]))
    ELSE IF Has(n.or) THEN thrower(firstThrowing(n.or[1]))
    ELSE IF Has(n.not) THEN thrower(n.not[1])
    ELSE n

\* error.message of what toDriveQuery(qry) throws
thrownMessage(qry, r) ==
    IF r.error = "Unknown node"
    THEN <<S_UnknownNode>> \o nodeStrings(thrower(qry.obj[1]))
    ELSE <<S_UnknownFieldOperator>>

\* the empty result set of the catch block
emptySuccess(sh) ==
    IF sh = "arrays"
    THEN [type |-> "success", shape |-> "arrays", count |-> 0, nextPageToken |-> None,
          columns |-> <<>>, rows |-> <<>>]
    ELSE [type |-> "success", shape |-> "objects", count |-> 0, nextPageToken |-> None,
          items |-> <<>>]

McpError == [type |-> "McpError", code |-> "InternalError"]

\* the catch block
catchReply(message, sh) ==
    IF isDriveValidationError(message) THEN emptySuccess(sh) ELSE McpError

\* the result of the try block for a page of files
successReply(page, sh) ==
    [type |-> "success", shape |-> sh, count |-> page.count,
     nextPageToken |-> IF page.nextPageToken # None /\ NonBlank(page.nextPageToken[1])
                       THEN page.nextPageToken ELSE None]

\* the message of the error a rejected drive.files.list carries
DriveErrors ==
    {<<P_InvalidValue>>, <<P_Invalidvalue>>, <<P_FileNotFound \o <<":", " ", "x", ".">>>>,
     <<<<"4", "0", "0", " ">> \o P_BadRequest>>, <<<<"i", "n", "v", "a", "l", "i", "d", " ", "v", "a", "l", "u", "e">>>>, <<<<"R", "a", "t", "e", " ", "L", "i", "m", "i", "t", " ", "E", "x", "c", "e", "e", "d", "e", "d">>>>}

\* the outcomes of drive.files.list: a page of files, or a rejection
ListOutcomes ==
    {[ok |-> TRUE, count |-> 0, nextPageToken |-> None, message |-> <<>>],
     [ok |-> TRUE, count |-> 2, nextPageToken |-> Some(<<"t">>), message |-> <<>>],
     [ok |-> TRUE, count |-> 1, nextPageToken |-> Some(<<" ">>), message |-> <<>>]}
    \cup {[ok |-> FALSE, count |-> 0, nextPageToken |-> None, message |-> m] :
             m \in DriveErrors}

\* the query of a search: DriveQuerySchema, whose strings are not empty; the
\* query of folder-search is optional
SearchInputs(t) ==
    (Inputs \ {RawString(<<>>)}) \cup (IF t = "folder-search" THEN {None} ELSE {})

InitSearch ==
    /\ tool \in {"files-search", "folder-search"}
    /\ query \in SearchInputs(tool)
    /\ pc = "called"
    /\ out = NoResult
    /\ prevQuery = None
    /\ keyOrder = <<>>
    /\ prevOut = NoResult
    /\ calls = 1
    /\ sent = <<>>
    /\ reply = NoReply
    /\ PageIdle
    /\ MoveIdle
    /\ PathIdle

\* the handler up to its await of drive.files.list; a throw of toDriveQuery
\* goes to the catch block, which rethrows it as an McpError
SearchCalled(r) ==
    /\ sentPageSize' = Some(validPageSize(pageSize))
    /\ out' = r.out
    /\ sent' = r.sent
    /\ reply' = IF r.sent = None THEN catchReply(thrownMessage(query, r.out), shape)
                 ELSE reply
    /\ pc' = IF r.sent # None THEN "listing"
              ELSE IF reply'.type = "McpError" THEN "thrown" ELSE "returned"
    /\ UNCHANGED <<query, prevQuery, prevOut, calls, keyOrder, tool, pageSize, shape, listed,
                   moveVars, pathVars>>

FilesSearch ==
    /\ tool = "files-search"
    /\ pc = "called"
    /\ SearchCalled(filesQStr(query))

FolderSearch ==
    /\ tool = "folder-search"
    /\ pc = "called"
    /\ SearchCalled(folderQStr(query))

\* drive.files.list settles: a page is returned as a success, a validation
\* error as an empty success, any other error as an McpError
ListSettles(o) ==
    /\ pc = "listing"
    /\ listed' = Some(o)
    /\ reply' = IF o.ok THEN successReply(o, shape) ELSE catchReply(o.message, shape)
    /\ pc' = IF reply'.type = "McpError" THEN "thrown" ELSE "returned"
    /\ UNCHANGED <<query, out, prevQuery, prevOut, calls, keyOrder, tool, sent, pageSize, shape,
                   sentPageSize, moveVars, pathVars>>

NextSearch ==
    \/ FilesSearch
    \/ FolderSearch
    \/ \E o \in ListOutcomes : ListSettles(o)

SpecSearch == InitSearch /\ [][NextSearch]_vars

\* the pageSize arguments tried: absent, NaN, the infinities, and values around
\* 0, 1, the default and the maximum, with and without a fraction
PageSizes ==
    {None, Some(NaN), Some(PosInfinity), Some(NegInfinity)}
    \cup {Some(Finite(h)) : h \in {0 - 2 * MaxPageSize - 1, 0 - 3, 0 - 2, 0 - 1, 0, 1, 2, 3,
                                    2 * DefaultPageSize - 1, 2 * DefaultPageSize,
                                    2 * MaxPageSize - 1, 2 * MaxPageSize,
                                    2 * MaxPageSize + 1, 2 * MaxPageSize + 2,
                                    4 * MaxPageSize}}

\* a name whose first operator is empty and whose second names 'Bad Request'
N_badRequest ==
    [EmptyObject EXCEPT !.name = Some(OpObj(Some(<<>>), Some(<<P_BadRequest>>), None))]

\* the queries tried with every pageSize and shape: ones that compile, ones
\* that throw, and a child that throws below a combinator
RequestQueries ==
    {RawString(V_a), Structured(EmptyObject), Structured(N_nameA),
     Structured(N_noOp), Structured(N_blankName), Structured(N_badRequest),
     Structured(And(<<N_nameA, N_badRequest>>)),
     Structured([EmptyObject EXCEPT !.name = Some(StrVal(P_BadRequest))])}

InitRequests ==
    /\ tool \in {"files-search", "folder-search"}
    /\ query \in RequestQueries \cup (IF tool = "folder-search" THEN {None} ELSE {})
    /\ pageSize \in PageSizes
    /\ shape \in {"arrays", "objects"}
    /\ sentPageSize = <<>>
    /\ listed = <<>>
    /\ pc = "called"
    /\ out = NoResult
    /\ prevQuery = None
    /\ keyOrder = <<>>
    /\ prevOut = NoResult
    /\ calls = 1
    /\ sent = <<>>
    /\ reply = NoReply
    /\ MoveIdle
    /\ PathIdle

SpecRequests == InitRequests /\ [][NextSearch]_vars

(***************************************************************************)
(* C18: for every form of query (raw string, object with rawDriveQuery,    *)
(* structured object, empty object, and no query for folder-search) the q  *)
(* that files-search and folder-search hand to the Drive list call is the  *)
(* user's query in one pair of parentheses ANDed with the fixed filters,   *)
(* or the fixed filters alone when the compiled query is empty:            *)
(* "trashed = false" is always a conjunct, and folder-search always has    *)
(* the folder mimeType conjunct as well.                                   *)
(***************************************************************************)
\* the user's query as text: the string, the rawDriveQuery of the object,
\* else what the object compiles to; nothing when there is no query
UserQuery ==
    IF query = None THEN <<>>
    ELSE IF Has(query.str) THEN query.str[1]
    ELSE IF Has(Root.rawDriveQuery) THEN Root.rawDriveQuery[1]
    ELSE toDriveQuery(query).q

\* the compilation of the query throws
CompileThrows ==
    /\ query # None /\ IsStructured /\ ~Has(Root.rawDriveQuery)
    /\ toDriveQuery(query).status = "throw"

\* the filters the tool adds to every query
FixedFilters ==
    IF tool = "folder-search"
    THEN <<"m","i","m","e","T","y","p","e","=","'">> \o folderMimeType
           \o <<"'"," ","a","n","d"," ","t","r","a","s","h","e","d"," ","="," ","f","a","l","s","e">>
    ELSE <<"t","r","a","s","h","e","d"," ","="," ","f","a","l","s","e">>

C19_ExplicitTrashedNotOverridden ==
    (/\ pc # "called" /\ sent # None
     /\ query # None /\ IsStructured /\ ~HasCombinator(Root)
     /\ ~Has(Root.rawDriveQuery) /\ Root.trashed = Some(TRUE))
    => ~EndsWith(sent[1], S_and \o S_trashedFalse)

(***************************************************************************)
(* The handler of file-move: a single file goes through moveSingleFile,    *)
(* an array of several through moveBatchFiles, whose drive.files.get and   *)
(* drive.files.update requests settle in any order.                        *)
(***************************************************************************)
FileIdValues == {"f1", "f2"}

\* fileIds of the input: a single ID, or an array of one ID or more
MoveInputs ==
    {[fileIds |-> <<f>>, isBatch |-> FALSE] : f \in FileIdValues}
    \cup {[fileIds |-> a, isBatch |-> TRUE] :
            a \in SeqsUpTo(FileIdValues, MaxIds) \ {<<>>}}

RECURSIVE idsWithStatus(_, _, _)
\* the ids whose promise has the given status, in the order of the array
idsWithStatus(results, ids, status) ==
    IF results = <<>> THEN <<>>
    ELSE (IF results[1] = status THEN <<ids[1]>> ELSE <<>>)
         \o idsWithStatus(Tail(results), Tail(ids), status)

\* the loop over metadataResults that forgets the rejected requests
processMetadata_DropsRejected(results, ids) ==
    [filesToMove |-> idsWithStatus(results, ids, "fulfilled"), failed |-> <<>>]

\* the loop over metadataResults: a fulfilled one goes to filesToMove, a
\* rejected one to failed
processMetadata(results, ids) ==
    [filesToMove |-> idsWithStatus(results, ids, "fulfilled"),
     failed |-> idsWithStatus(results, ids, "rejected")]

\* the loop over moveResults: a fulfilled one goes to moved, a rejected one
\* to failed
processMoves(results, files) ==
    [moved |-> idsWithStatus(results, files, "fulfilled"),
     failed |-> idsWithStatus(results, files, "rejected")]

\* the result object of the handler
moveOutput(ids, mv, fl) ==
    [moved |-> mv,
     failed |-> IF Len(fl) > 0 THEN Some(fl) ELSE None,
     totalRequested |-> Len(ids),
     totalMoved |-> Len(mv),
     totalFailed |-> Len(fl)]

\* a wait that ends at once
Settled_AtOnce(results) == TRUE

\* Promise.allSettled has resolved
Settled(results) == \A i \in 1..Len(results) : results[i] # "pending"

InitMove ==
    /\ \E in \in MoveInputs : fileIds = in.fileIds /\ isBatch = in.isBatch
    /\ metadataResults = <<>>
    /\ filesToMove = <<>>
    /\ moveResults = <<>>
    /\ moved = <<>>
    /\ failed = <<>>
    /\ result = <<>>
    /\ mpc = "called"
    /\ query = None
    /\ pc = "idle"
    /\ out = NoResult
    /\ prevQuery = None
    /\ keyOrder = <<>>
    /\ prevOut = NoResult
    /\ calls = 1
    /\ tool = "file-move"
    /\ sent = <<>>
    /\ reply = NoReply
    /\ PageIdle
    /\ PathIdle

\* the handler up to its first await: moveBatchFiles sends a get for every
\* file, moveSingleFile one get
MoveCalled ==
    /\ mpc = "called"
    /\ IF isBatch /\ Len(fileIds) > 1
       THEN /\ metadataResults' = [i \in 1..Len(fileIds) |-> "pending"]
            /\ mpc' = "metadata"
       ELSE /\ metadataResults' = <<"pending">>
            /\ mpc' = "get"
    /\ UNCHANGED <<fileIds, isBatch, filesToMove, moveResults, moved, failed, result,
                   queryVars, searchVars, pathVars>>

\* one drive.files.get of the batch settles
MetadataSettles(i, status) ==
    /\ mpc = "metadata"
    /\ i \in 1..Len(metadataResults)
    /\ metadataResults[i] = "pending"
    /\ metadataResults' = [metadataResults EXCEPT ![i] = status]
    /\ UNCHANGED <<fileIds, isBatch, filesToMove, moveResults, moved, failed, result,
                   mpc, queryVars, searchVars, pathVars>>

\* all gets have settled: sort them into filesToMove and failed, and send
\* an update for every file to move
ProcessMetadata ==
    /\ mpc = "metadata"
    /\ Settled(metadataResults)
    /\ filesToMove' = processMetadata(metadataResults, fileIds).filesToMove
    /\ failed' = failed \o processMetadata(metadataResults, fileIds).failed
    /\ moveResults' = [j \in 1..Len(filesToMove') |-> "pending"]
    /\ mpc' = "moving"
    /\ UNCHANGED <<fileIds, isBatch, metadataResults, moved, result,
                   queryVars, searchVars, pathVars>>

\* one drive.files.update of the batch settles
MoveSettles(j, status) ==
    /\ mpc = "moving"
    /\ j \in 1..Len(moveResults)
    /\ moveResults[j] = "pending"
    /\ moveResults' = [moveResults EXCEPT ![j] = status]
    /\ UNCHANGED <<fileIds, isBatch, metadataResults, filesToMove, moved, failed,
                   result, mpc, queryVars, searchVars, pathVars>>

\* all updates have settled: sort them into moved and failed; the handler
\* builds its result
ProcessMoves ==
    /\ mpc = "moving"
    /\ Settled(moveResults)
    /\ moved' = moved \o processMoves(moveResults, filesToMove).moved
    /\ failed' = failed \o processMoves(moveResults, filesToMove).failed
    /\ result' = Some(moveOutput(fileIds, moved', failed'))
    /\ mpc' = "returned"
    /\ UNCHANGED <<fileIds, isBatch, metadataResults, filesToMove, moveResults,
                   queryVars, searchVars, pathVars>>

\* moveSingleFile: drive.files.get settles; a rejection is caught and
\* reported as the failed move
GetSettles(status) ==
    /\ mpc = "get"
    /\ metadataResults' = <<status>>
    /\ IF status = "fulfilled"
       THEN /\ moveResults' = <<"pending">>
            /\ mpc' = "update"
            /\ UNCHANGED <<failed, result>>
       ELSE /\ failed' = Append(failed, fileIds[1])
            /\ result' = Some(moveOutput(fileIds, moved, failed'))
            /\ mpc' = "returned"
            /\ UNCHANGED moveResults
    /\ UNCHANGED <<fileIds, isBatch, filesToMove, moved, queryVars, searchVars, pathVars>>

\* moveSingleFile: drive.files.update settles
UpdateSettles(status) ==
    /\ mpc = "update"
    /\ moveResults' = <<status>>
    /\ moved' = IF status = "fulfilled" THEN Append(moved, fileIds[1]) ELSE moved
    /\ failed' = IF status = "fulfilled" THEN failed ELSE Append(failed, fileIds[1])
    /\ result' = Some(moveOutput(fileIds, moved', failed'))
    /\ mpc' = "returned"
    /\ UNCHANGED <<fileIds, isBatch, metadataResults, filesToMove,
                   queryVars, searchVars, pathVars>>

PromiseStatus == {"fulfilled", "rejected"}

NextMove ==
    \/ MoveCalled
    \/ \E i \in 1..MaxIds, st \in PromiseStatus : MetadataSettles(i, st)
    \/ ProcessMetadata
    \/ \E j \in 1..MaxIds, st \in PromiseStatus : MoveSettles(j, st)
    \/ ProcessMoves
    \/ \E st \in PromiseStatus : GetSettles(st)
    \/ \E st \in PromiseStatus : UpdateSettles(st)

SpecMove == InitMove /\ [][NextMove]_vars

(***************************************************************************)
(* C20: accounting of the file-move result.  For a single ID, an array of  *)
(* one ID or an array of several, duplicates allowed, and any combination  *)
(* and order of get and update successes and failures: totalRequested is   *)
(* the number of input IDs, totalMoved = |moved|, totalFailed = |failed|,  *)
(* totalMoved + totalFailed = totalRequested, each requested ID is in      *)
(* exactly one of moved and failed, and the failed key is present iff      *)
(* totalFailed > 0.                                                        *)
(***************************************************************************)
\* number of entries of the list xs that are the ID f
Occurrences(xs, f) == Cardinality({i \in 1..Len(xs) : xs[i] = f})

\* the counters of the result agree with its lists and with the input
CountersAgree(r) ==
    /\ r.totalRequested = Len(fileIds)
    /\ r.totalMoved = Len(r.moved)
    /\ r.totalFailed = Len(OptList(r.failed))
    /\ r.totalMoved + r.totalFailed = r.totalRequested
    /\ Has(r.failed) <=> r.totalFailed > 0

\* C20 as stated: the counters agree, and every requested ID is in moved or
\* in failed and not in both.
C20_EachIdInExactlyOneList ==
    (mpc = "returned")
    => /\ result # None
       /\ CountersAgree(result[1])
       /\ \A f \in Range(fileIds) :
            (f \in Range(result[1].moved)) # (f \in Range(OptList(result[1].failed)))

\* C20 as amended: the counters agree, and every entry of the input is
\* reported once: an ID is as many times in moved and failed together as
\* it is in the input.
C20_EachEntryReportedOnce ==
    (mpc = "returned")
    => /\ result # None
       /\ CountersAgree(result[1])
       /\ \A f \in FileIdValues :
            Occurrences(result[1].moved, f) + Occurrences(OptList(result[1].failed), f)
              = Occurrences(fileIds, f)

\* a batch with a duplicate: one get rejected, one update rejected, one
\* file moved
C20_Witness ==
    /\ mpc = "returned"
    /\ fileIds = <<"f1", "f1", "f2">>
    /\ metadataResults = <<"fulfilled", "fulfilled", "rejected">>
    /\ moveResults = <<"fulfilled", "rejected">>
    /\ result = Some([moved |-> <<"f1">>, failed |-> Some(<<"f2", "f1">>),
                      totalRequested |-> 3, totalMoved |-> 1, totalFailed |-> 2])

(***************************************************************************)
(* The handler of file-move-to-trash: one drive.files.update per id, all   *)
(* awaited together; the rejected ones make up failures.                   *)
(***************************************************************************)
RECURSIVE firstOccurrences(_, _)
\* xs without the entries that repeat an earlier one or a member of seen
firstOccurrences(xs, seen) ==
    IF xs = <<>> THEN <<>>
    ELSE IF xs[1] \in seen THEN firstOccurrences(Tail(xs), seen)
    ELSE <<xs[1]>> \o firstOccurrences(Tail(xs), seen \cup {xs[1]})

\* failures with every failed id listed once
trashFailures_Distinct(results, ids) ==
    firstOccurrences(idsWithStatus(results, ids, "rejected"), {})

\* results.forEach: a rejected update adds its id to failures
trashFailures(results, ids) == idsWithStatus(results, ids, "rejected")

\* the result object of the handler
trashOutput(ids, fl) ==
    [totalCount |-> Len(ids),
     successCount |-> Len(ids) - Len(fl),
     failureCount |-> Len(fl),
     recoverable |-> TRUE,
     failures |-> IF Len(fl) > 0 THEN Some(fl) ELSE None]

InitTrash ==
    /\ fileIds \in SeqsUpTo(FileIdValues, MaxIds) \ {<<>>}
    /\ isBatch = TRUE
    /\ metadataResults = <<>>
    /\ filesToMove = <<>>
    /\ moveResults = <<>>
    /\ moved = <<>>
    /\ failed = <<>>
    /\ result = <<>>
    /\ mpc = "called"
    /\ query = None
    /\ pc = "idle"
    /\ out = NoResult
    /\ prevQuery = None
    /\ keyOrder = <<>>
    /\ prevOut = NoResult
    /\ calls = 1
    /\ tool = "file-move-to-trash"
    /\ sent = <<>>
    /\ reply = NoReply
    /\ PageIdle
    /\ PathIdle

\* the handler up to its await: an update is sent for every id
TrashCalled ==
    /\ mpc = "called"
    /\ moveResults' = [i \in 1..Len(fileIds) |-> "pending"]
    /\ mpc' = "trashing"
    /\ UNCHANGED <<fileIds, isBatch, metadataResults, filesToMove, moved, failed, result,
                   queryVars, searchVars, pathVars>>

\* one drive.files.update settles
TrashSettles(i, status) ==
    /\ mpc = "trashing"
    /\ i \in 1..Len(moveResults)
    /\ moveResults[i] = "pending"
    /\ moveResults' = [moveResults EXCEPT ![i] = status]
    /\ UNCHANGED <<fileIds, isBatch, metadataResults, filesToMove, moved, failed, result,
                   mpc, queryVars, searchVars, pathVars>>

\* all updates have settled: collect the failures, count, return
TrashReturns ==
    /\ mpc = "trashing"
    /\ Settled(moveResults)
    /\ failed' = trashFailures(moveResults, fileIds)
    /\ result' = Some(trashOutput(fileIds, failed'))
    /\ mpc' = "returned"
    /\ UNCHANGED <<fileIds, isBatch, metadataResults, filesToMove, moveResults, moved,
                   queryVars, searchVars, pathVars>>

NextTrash ==
    \/ TrashCalled
    \/ \E i \in 1..MaxIds, st \in PromiseStatus : TrashSettles(i, st)
    \/ TrashReturns

SpecTrash == InitTrash /\ [][NextTrash]_vars

(***************************************************************************)
(* C21: accounting of file-move-to-trash.  For any list of ids and any     *)
(* combination of update successes and failures, totalCount is the number  *)
(* of input ids, successCount + failureCount = totalCount, failureCount    *)
(* is the number of entries of failures, every failed id is listed once    *)
(* per occurrence in input order, and the failures key is omitted iff      *)
(* every update succeeded.                                                 *)
(***************************************************************************)
\* the positions of the input whose update was rejected
RejectedAt == {i \in 1..Len(moveResults) : moveResults[i] = "rejected"}

\* the k-th of them in input order
KthRejected(k) ==
    CHOOSE i \in RejectedAt : Cardinality({j \in RejectedAt : j < i}) = k - 1

\* C21: the counters and the failures list of a returned file-move-to-trash.
C21_TrashAccounting ==
    (mpc = "returned" /\ tool = "file-move-to-trash")
    => /\ result # None
       /\ result[1].totalCount = Len(fileIds)
       /\ result[1].successCount + result[1].failureCount = result[1].totalCount
       /\ result[1].failureCount = Len(OptList(result[1].failures))
       /\ result[1].failureCount = Cardinality(RejectedAt)
       /\ \A k \in 1..Len(OptList(result[1].failures)) :
            OptList(result[1].failures)[k] = fileIds[KthRejected(k)]
       /\ (~Has(result[1].failures)) <=> (RejectedAt = {})

\* a duplicated id rejected twice, around one that succeeded
C21_Witness ==
    /\ mpc = "returned"
    /\ tool = "file-move-to-trash"
    /\ fileIds = <<"f1", "f2", "f1">>
    /\ moveResults = <<"rejected", "fulfilled", "rejected">>
    /\ result = Some([totalCount |-> 3, successCount |-> 1, failureCount |-> 2,
                      recoverable |-> TRUE, failures |-> Some(<<"f1", "f1">>)])

(***************************************************************************)
(* Path resolution: resolveFolderPath of folder-path, and resolveFolderPath *)
(* of folder-search with the folderCache its concurrent calls share.       *)
(* drive gives, for every folder id, the fixed answer of drive.files.get:  *)
(* a rejection, or the name and the parents of the folder.  A walk is the  *)
(* state of one resolveFolderPath call; the code between two awaits is one *)
(* step.                                                                   *)
(***************************************************************************)
MaxWalks == 2

FolderIds == {"a", "b"}

S_slash == <<"/">>
S_MyDrive == <<"M", "y", " ", "D", "r", "i", "v", "e">>

\* the characters of a one-character folder id
IdStr(id) == <<id>>

rootSegment == [id |-> "root", name |-> S_MyDrive]

\* the names Drive may hold for a folder: none, or one that tells it apart
FolderNames(id) == {<<>>, IF id = "a" THEN <<"A">> ELSE IF id = "b" THEN <<"B">> ELSE <<"C">>}

ParentLists == {<<>>, <<"root">>} \cup {<<f>> : f \in FolderIds}

Rejected == [ok |-> FALSE, name |-> <<>>, parents |-> <<>>]

Responses(id) ==
    {Rejected} \cup {[ok |-> TRUE, name |-> n, parents |-> ps] :
                        n \in FolderNames(id), ps \in ParentLists}

Drives == {d \in [FolderIds -> UNION {Responses(id) : id \in FolderIds}] :
              \A id \in FolderIds : d[id] \in Responses(id)}

\* a resolveFolderPath call that has not started to run; fetched lists the ids
\* of its drive.files.get calls, hits the ids it found in the cache
NewWalk(folderId) ==
    [folderId |-> folderId, currentId |-> folderId, visited |-> {},
     segments |-> <<>>, pathParts |-> <<>>, fetched |-> <<>>, hits |-> <<>>,
     wpc |-> "called", path |-> None]

\* (parents && parents.length > 0 ? parents[0] : '') || ''
firstParent(parents) == IF Len(parents) > 0 THEN parents[1] ELSE ""

\* a walk that never finds an id visited
alreadyVisited_Never(w) == FALSE

\* visited.has(currentId)
alreadyVisited(w) == w.currentId \in w.visited

\* segments.slice(1).map((seg) => seg.name)
namesAfterFirst(segments) ==
    IF segments = <<>> THEN <<>>
    ELSE [i \in 1..(Len(segments) - 1) |-> segments[i + 1].name]

\* folder-path after the loop: root is added if reached, the path is built
pathFinish(w) ==
    LET segs == IF w.currentId = "root" THEN <<rootSegment>> \o w.segments
                ELSE w.segments
        parts == namesAfterFirst(segs)
    IN  [w EXCEPT !.segments = segs,
                  !.pathParts = parts,
                  !.path = Some(IF Len(parts) > 0 THEN S_slash \o join(parts, S_slash)
                                ELSE S_slash),
                  !.wpc = "done"]

\* folder-path from the head of the loop to the next await or the return
pathLoop(w) ==
    IF w.currentId # "" /\ w.currentId # "root" /\ ~alreadyVisited(w)
    THEN [w EXCEPT !.visited = w.visited \cup {w.currentId},
                   !.fetched = Append(w.fetched, w.currentId),
                   !.wpc = "get"]
    ELSE pathFinish(w)

\* folder-path from the entry to the first await or the return
pathStart(w) ==
    IF w.folderId = "root"
    THEN [w EXCEPT !.segments = <<rootSegment>>, !.path = Some(S_slash), !.wpc = "done"]
    ELSE pathLoop(w)

\* folder-path when drive.files.get settles
pathResponse(w, r) ==
    IF r.ok
    THEN pathLoop([w EXCEPT
            !.segments = <<[id |-> w.currentId,
                            name |-> IF r.name # <<>> THEN r.name ELSE IdStr(w.currentId)]>>
                         \o w.segments,
            !.currentId = firstParent(r.parents)])
    ELSE pathFinish(w)

\* the cached branch that leaves the cached name out of the path
cachedPart_Skipped(cache, id) == <<>>

\* if (cachedName) pathParts.unshift(cachedName)
cachedPart(cache, id) == IF cache[id] # <<>> THEN <<cache[id]>> ELSE <<>>

\* folder-search: return `/${pathParts.join('/')}`
resolveFinish(w) ==
    [w EXCEPT !.path = Some(S_slash \o join(w.pathParts, S_slash)), !.wpc = "done"]

\* folder-search from the head of the loop to the next await or the return
resolveLoop(w, cache) ==
    IF w.currentId # "" /\ w.currentId # "root" /\ ~alreadyVisited(w)
    THEN IF w.currentId \in DOMAIN cache
         THEN [w EXCEPT !.visited = w.visited \cup {w.currentId},
                        !.pathParts = cachedPart(cache, w.currentId) \o w.pathParts,
                        !.fetched = Append(w.fetched, w.currentId),
                        !.hits = Append(w.hits, w.currentId),
                        !.wpc = "cachedGet"]
         ELSE [w EXCEPT !.visited = w.visited \cup {w.currentId},
                        !.fetched = Append(w.fetched, w.currentId),
                        !.wpc = "get"]
    ELSE resolveFinish(w)

\* folder-search from the entry to the first await or the return
resolveStart(w, cache) ==
    IF w.folderId = "root"
    THEN [w EXCEPT !.path = Some(S_slash), !.wpc = "done"]
    ELSE resolveLoop(w, cache)

\* folderCache.set(currentId, folderName)
cacheSet(cache, id, name) ==
    [k \in DOMAIN cache \cup {id} |-> IF k = id THEN name ELSE cache[k]]

\* the cache after the answer to a get of name and parents
cacheAfter(w, r, cache) ==
    IF w.wpc = "get" /\ r.ok /\ r.name # <<>>
    THEN cacheSet(cache, w.currentId, r.name)
    ELSE cache

\* folder-search when drive.files.get settles, given the cache as it then is
resolveResponse(w, r, cache) ==
    IF ~r.ok THEN resolveFinish(w)
    ELSE IF w.wpc = "cachedGet"
    THEN resolveLoop([w EXCEPT !.currentId = firstParent(r.parents)], cache)
    ELSE resolveLoop([w EXCEPT
            !.pathParts = (IF r.name # <<>> THEN <<r.name>> ELSE <<>>) \o w.pathParts,
            !.currentId = firstParent(r.parents)], cache)

WalkTargets == FolderIds \cup {"root"}

InitPaths ==
    /\ tool \in {"folder-path", "folder-search"}
    /\ drive \in Drives
    /\ walks \in IF tool = "folder-path"
                 THEN {<<NewWalk(f)>> : f \in WalkTargets}
                 ELSE {[i \in 1..Len(fs) |-> NewWalk(fs[i])] :
                          fs \in SeqsUpTo(WalkTargets, MaxWalks) \ {<<>>}}
    /\ folderCache = <<>>
    /\ query = None
    /\ pc = "idle"
    /\ out = NoResult
    /\ prevQuery = None
    /\ keyOrder = <<>>
    /\ prevOut = NoResult
    /\ calls = 1
    /\ sent = <<>>
    /\ reply = NoReply
    /\ PageIdle
    /\ MoveIdle

\* folder-path: resolveFolderPath runs up to its first await
PathCalled ==
    /\ tool = "folder-path"
    /\ walks[1].wpc = "called"
    /\ walks' = [walks EXCEPT ![1] = pathStart(walks[1])]
    /\ UNCHANGED <<drive, folderCache, queryVars, searchVars, moveVars>>

\* folder-path: drive.files.get settles and the walk runs up to its next await
PathGetSettles ==
    /\ tool = "folder-path"
    /\ walks[1].wpc = "get"
    /\ walks' = [walks EXCEPT ![1] = pathResponse(walks[1], drive[walks[1].currentId])]
    /\ UNCHANGED <<drive, folderCache, queryVars, searchVars, moveVars>>

\* folder-search: the resolveFolderPath call of one result folder runs up to
\* its first await; folders.map starts the calls in the order of the results
ResolveCalled(i) ==
    /\ tool = "folder-search"
    /\ i \in 1..Len(walks)
    /\ walks[i].wpc = "called"
    /\ \A j \in 1..(i - 1) : walks[j].wpc # "called"
    /\ walks' = [walks EXCEPT ![i] = resolveStart(walks[i], folderCache)]
    /\ UNCHANGED <<drive, folderCache, queryVars, searchVars, moveVars>>

\* folder-search: one drive.files.get settles and its walk runs up to its
\* next await; folders.map has started every call before any answer is handled
ResolveGetSettles(i) ==
    /\ tool = "folder-search"
    /\ i \in 1..Len(walks)
    /\ \A j \in 1..Len(walks) : walks[j].wpc # "called"
    /\ walks[i].wpc \in {"get", "cachedGet"}
    /\ folderCache' = cacheAfter(walks[i], drive[walks[i].currentId], folderCache)
    /\ walks' = [walks EXCEPT
                    ![i] = resolveResponse(walks[i], drive[walks[i].currentId], folderCache')]
    /\ UNCHANGED <<drive, queryVars, searchVars, moveVars>>

NextPaths ==
    \/ PathCalled
    \/ PathGetSettles
    \/ \E i \in 1..MaxWalks : ResolveCalled(i)
    \/ \E i \in 1..MaxWalks : ResolveGetSettles(i)

SpecPaths == InitPaths /\ [][NextPaths]_vars

\* every started get settles and its continuation runs
SpecPathsFair == SpecPaths /\ WF_vars(NextPaths)

(***************************************************************************)
(* C22: folder-path resolution.  For folderId 'root' the result is path    *)
(* '/' with exactly one item {id: 'root', name: 'My Drive'}; for any other *)
(* folder the items are ordered from the outermost resolved ancestor down  *)
(* to the target folder, and path is '/' followed by the names of all      *)
(* non-root items joined by '/', also when the walk stops before reaching  *)
(* root (API error, folder without parents, or cycle).                     *)
(***************************************************************************)
\* the names of the items that are not the root item, in order
NonRootNames(items) ==
    LET keep == SelectSeq(items, LAMBDA it : it.id # "root")
    IN  [i \in 1..Len(keep) |-> keep[i].name]

\* each item but the last is the first parent Drive names for the next one
AncestorOrder(items) ==
    \A i \in 1..(Len(items) - 1) :
        /\ items[i + 1].id \in FolderIds
        /\ drive[items[i + 1].id].ok
        /\ firstParent(drive[items[i + 1].id].parents) = items[i].id

\* C22: the items and the path of a returned folder-path.
C22_PathNamesEveryNonRootItem ==
    (tool = "folder-path" /\ walks[1].wpc = "done")
    => LET w == walks[1] IN
       IF w.folderId = "root"
       THEN w.path = Some(S_slash) /\ w.segments = <<rootSegment>>
       ELSE /\ AncestorOrder(w.segments)
            /\ (w.segments # <<>> => w.segments[Len(w.segments)].id = w.folderId)
            /\ w.path = Some(S_slash \o join(NonRootNames(w.segments), S_slash))

(***************************************************************************)
(* C28: the parent-chain walk of resolveFolderPath (folder-path and        *)
(* folder-search) terminates for every parent graph, including graphs with *)
(* cycles and chains that never reach 'root': each folder id is visited at *)
(* most once per walk, so the number of metadata fetches in one walk is at *)
(* most the number of distinct folder ids on the chain, and the walk stops *)
(* at the first fetch failure.                                             *)
(***************************************************************************)
RECURSIVE ChainFrom(_, _)
\* the folder ids on the first-parent chain of id, up to root, a folder
\* without parents, a rejected get or a repeated id
ChainFrom(id, seen) ==
    IF id \notin FolderIds \/ id \in seen THEN seen
    ELSE IF ~drive[id].ok THEN seen \cup {id}
    ELSE ChainFrom(firstParent(drive[id].parents), seen \cup {id})

FetchesOnce(w) ==
    \A i, j \in 1..Len(w.fetched) : i # j => w.fetched[i] # w.fetched[j]

StopsAtFailure(w) ==
    /\ \A i \in 1..(Len(w.fetched) - 1) : drive[w.fetched[i]].ok
    /\ (w.wpc \in {"get", "cachedGet"} /\ w.fetched # <<>>)
       => w.currentId = w.fetched[Len(w.fetched)]

WalkBounded(w) ==
    /\ FetchesOnce(w)
    /\ Len(w.fetched) <= Cardinality(ChainFrom(w.folderId, {}))
    /\ Range(w.fetched) \subseteq ChainFrom(w.folderId, {})
    /\ StopsAtFailure(w)

AllWalksDone == \A i \in 1..Len(walks) : walks[i].wpc = "done"

\* C28: every walk fetches each id of its chain at most once, nothing after a
\* rejected get, and every walk ends.
C28_WalkTerminates ==
    /\ [](\A i \in 1..Len(walks) : WalkBounded(walks[i]))
    /\ <>AllWalksDone

\* a cycle a -> b -> a walked by folder-path: two fetches, then the end
C28_Witness ==
    /\ tool = "folder-path"
    /\ drive["a"].ok /\ drive["a"].parents = <<"b">>
    /\ drive["b"].ok /\ drive["b"].parents = <<"a">>
    /\ walks[1].folderId = "a"
    /\ walks[1].fetched = <<"a", "b">>
    /\ walks[1].currentId = "a"
    /\ walks[1].wpc = "done"

(***************************************************************************)
(* C29: in folder-search with resolvePaths=true the concurrent             *)
(* resolveFolderPath calls of one request share one folderCache; for a     *)
(* Drive whose response per folder id is fixed, the path computed for each *)
(* result folder is the same under every interleaving of those calls and   *)
(* equals the path computed with an empty cache, and the cache only ever   *)
(* maps a folder id to the name Drive returned for that id.                *)
(***************************************************************************)
RECURSIVE RunAlone(_, _)
\* a resolveFolderPath call run to its end with a cache nobody else touches
RunAlone(w, cache) ==
    IF w.wpc = "done" THEN w
    ELSE IF w.wpc = "called" THEN RunAlone(resolveStart(w, cache), cache)
    ELSE LET after == cacheAfter(w, drive[w.currentId], cache)
         IN  RunAlone(resolveResponse(w, drive[w.currentId], after), after)

EmptyCachePath(folderId) == RunAlone(NewWalk(folderId), <<>>).path

CacheHoldsDriveNames ==
    \A id \in DOMAIN folderCache :
        /\ id \in FolderIds
        /\ drive[id].ok
        /\ folderCache[id] = drive[id].name
        /\ folderCache[id] # <<>>

\* C29: whatever the order in which the gets settle, a finished call has the
\* path of a call with an empty cache, and the cache holds Drive's names.
C29_PathsIndependentOfInterleaving ==
    (tool = "folder-search")
    => /\ CacheHoldsDriveNames
       /\ \A i \in 1..Len(walks) :
            walks[i].wpc = "done" => walks[i].path = EmptyCachePath(walks[i].folderId)

\* the call for a found b in the cache that the call for b had filled
C29_Witness ==
    /\ tool = "folder-search"
    /\ Len(walks) = 2
    /\ walks[1].folderId = "a" /\ walks[2].folderId = "b"
    /\ AllWalksDone
    /\ walks[1].hits = <<"b">>
    /\ walks[1].path = Some(<<"/", "B", "/", "A">>)
    /\ walks[2].path = Some(<<"/", "B">>)
    /\ folderCache = [id \in {"a", "b"} |-> IF id = "a" THEN <<"A">> ELSE <<"B">>]

(***************************************************************************)
(* C23: for any numeric pageSize input to files-search and folder-search   *)
(* (including 0, negative, fractional and values above 1000), the pageSize *)
(* sent to the Drive list call is an integer in 1..1000: values above 1000 *)
(* give 1000, negative values give 1, and 0 or absent gives the default    *)
(* 50.                                                                     *)
(***************************************************************************)
IsIntegerIn(x, lo, hi) ==
    /\ x.kind = "finite"
    /\ x.h % 2 = 0
    /\ 2 * lo <= x.h /\ x.h <= 2 * hi

Above(ps, n) == ps # None /\ (ps[1].kind = "+Infinity" \/ (ps[1].kind = "finite" /\ ps[1].h > 2 * n))
Negative(ps) == ps # None /\ (ps[1].kind = "-Infinity" \/ (ps[1].kind = "finite" /\ ps[1].h < 0))
ZeroOrAbsent(ps) == ps = None \/ (ps[1].kind = "finite" /\ ps[1].h = 0)
WholeInRange(ps) == ps # None /\ IsIntegerIn(ps[1], 1, MaxPageSize)

\* C23: the pageSize of the list call is a clamped integer.
C23_PageSizeClamped ==
    (tool \in {"files-search", "folder-search"} /\ sentPageSize # None)
    => /\ IsIntegerIn(sentPageSize[1], 1, MaxPageSize)
       /\ (Above(pageSize, MaxPageSize) => sentPageSize[1] = Whole(MaxPageSize))
       /\ (Negative(pageSize) => sentPageSize[1] = Whole(1))
       /\ (ZeroOrAbsent(pageSize) => sentPageSize[1] = Whole(DefaultPageSize))
       /\ (WholeInRange(pageSize) => sentPageSize[1] = pageSize[1])

\* 1000.5 is floored and clamped to 1000 in the list call of folder-search
C23_Witness ==
    /\ tool = "folder-search"
    /\ pc = "listing"
    /\ pageSize = Some(Finite(2 * MaxPageSize + 1))
    /\ sentPageSize = Some(Whole(MaxPageSize))

(***************************************************************************)
(* C24: error outcome of files-search and folder-search.  When the Drive   *)
(* call fails with a validation error (message containing 'Invalid Value', *)
(* 'Invalid value', 'File not found' or 'Bad Request') the handler returns *)
(* a success result with zero items (count 0, no nextPageToken) in the     *)
(* requested shape instead of throwing; every other failure, including an  *)
(* error thrown by toDriveQuery, is rethrown as an McpError with           *)
(* InternalError code.                                                     *)
(***************************************************************************)
SearchEnded == tool \in {"files-search", "folder-search"} /\ pc \in {"returned", "thrown"}

ListFailed == listed # None /\ ~listed[1].ok

\* the text of the Drive error names one of the four patterns
ValidationFailure ==
    /\ ListFailed
    /\ \E pattern \in ValidationPatterns : Contains(listed[1].message[1], pattern)

EmptyInShape ==
    /\ pc = "returned"
    /\ reply.type = "success"
    /\ reply.shape = shape
    /\ reply.count = 0
    /\ reply.nextPageToken = None
    /\ (shape = "arrays" => reply.columns = <<>> /\ reply.rows = <<>>)
    /\ (shape = "objects" => reply.items = <<>>)

Rethrown == pc = "thrown" /\ reply = [type |-> "McpError", code |-> "InternalError"]

\* C24: a validation error of Drive ends in an empty success, any other
\* failure, a throw of toDriveQuery included, in an McpError.
C24_ErrorOutcome ==
    SearchEnded
    => /\ (ValidationFailure => EmptyInShape)
       /\ ((ListFailed /\ ~ValidationFailure) => Rethrown)
       /\ (out.status = "throw" => Rethrown)

\* the same without the throws of toDriveQuery
C24_DriveErrorOutcome ==
    SearchEnded
    => /\ (ValidationFailure => EmptyInShape)
       /\ ((ListFailed /\ ~ValidationFailure) => Rethrown)

(***************************************************************************)
(* C25: empty-branch elision.  A child of $and/$or (at the root or nested) *)
(* that emits the empty string contributes no operand, so for every        *)
(* well-formed expression q holds no operator keyword with a missing       *)
(* operand (no `and  and`, no `(` directly followed by an operator, no     *)
(* operator directly followed by `)`), no empty group `()`, and no bare    *)
(* `not` without operand.                                                  *)
(***************************************************************************)
W_not == <<"n", "o", "t">>
Operators == {W_and, W_or}

\* two operators with nothing but blanks between them
OperatorAfterOperator(q) ==
    \E v \in Operators \cup {W_not}, w \in Operators :
        Contains(q, v \o <<" ", " ">> \o w)

\* an operator right after an opening parenthesis
OperatorAfterOpen(q) ==
    \E w \in Operators : Contains(q, <<"(">> \o w) \/ Contains(q, <<"(", " ">> \o w \o <<" ">>)

\* a closing parenthesis right after an operator
CloseAfterOperator(q) ==
    \E w \in Operators \cup {W_not} :
        Contains(q, w \o <<")">>) \/ Contains(q, <<" ">> \o w \o <<" ", ")">>)

EmptyGroup(q) == Contains(q, <<"(", ")">>)

\* a not at the end of q
BareNot(q) == q = W_not \/ EndsWith(q, <<" ">> \o W_not) \/ EndsWith(q, W_not \o <<" ">>)

\* an operator at either end of q
OperatorAtEnd(q) ==
    \E w \in Operators :
        \/ q = w
        \/ StartsWith(q, w \o <<" ">>)
        \/ EndsWith(q, <<" ">> \o w)

\* C25: q of a well-formed expression has no operator without operand, no
\* empty group and no bare not.
C25_NoMissingOperand ==
    (pc = "returned" /\ IsStructured /\ PlainTree(Root))
    => /\ ~OperatorAfterOperator(out.q)
       /\ ~OperatorAfterOpen(out.q)
       /\ ~CloseAfterOperator(out.q)
       /\ ~EmptyGroup(out.q)
       /\ ~BareNot(out.q)
       /\ ~OperatorAtEnd(out.q)

(***************************************************************************)
(* C26: within one object node the fragments are emitted in the fixed      *)
(* order starred, sharedWithMe, trashed, modifiedTime, name, mimeType,     *)
(* fullText, parentId, owner, independent of the key order of the input    *)
(* object; two nodes with the same keys and values in different key order  *)
(* yield the same q and the same filters.                                  *)
(***************************************************************************)
\* C26: whatever the key order, q is the chain of the fragments in the fixed
\* order, and a call with the keys in another order gives the same result.
C26_FixedFragmentOrder ==
    (pc = "returned" /\ IsStructured /\ keyOrder # <<>>)
    => /\ (ChainLeaf(Root) => out.q = Chained(S_and, LeafFragments(Root)))
       /\ ((prevQuery = Some(query) /\ prevOut.status = "ok")
           => out.q = prevOut.q /\ out.filters = prevOut.filters)

\* owner written first and starred last, after a call in the order of the schema
C26_Witness ==
    /\ pc = "returned"
    /\ calls = 2
    /\ prevQuery = Some(query)
    /\ Root = [EmptyObject EXCEPT !.starred = Some(TRUE), !.name = Some(StrVal(V_a)),
                                  !.owner = Some(StrVal(V_q))]
    /\ keyOrder = <<"owner", "starred", "name">>
    /\ out.q = prevOut.q
    /\ StartsWith(out.q, <<"(">> \o S_starredEq \o S_true \o S_and \o S_nameContains)
    /\ EndsWith(out.q, S_inOwners \o <<")">>)

(***************************************************************************)
(* C27: in file-move, files.update is issued for a file only after         *)
(* files.get for that same file has succeeded; a file whose metadata get   *)
(* fails receives no update call and is reported in failed; and in batch   *)
(* mode no update call is started before every metadata get of the batch   *)
(* has settled.                                                            *)
(***************************************************************************)
BatchMode == isBatch /\ Len(fileIds) > 1

\* the positions of the input whose get has the given status
GetsWith(status) == {i \in 1..Len(metadataResults) : metadataResults[i] = status}

\* the k-th position whose get was fulfilled
KthFulfilled(k) ==
    CHOOSE i \in GetsWith("fulfilled") :
        Cardinality({j \in GetsWith("fulfilled") : j < i}) = k - 1

\* the positions of the input for which an update has been sent
UpdatesSent ==
    IF BatchMode THEN {KthFulfilled(j) : j \in 1..Len(moveResults)}
    ELSE IF moveResults # <<>> THEN {1} ELSE {}

\* C27: updates go to the files whose get succeeded, after all gets of a batch.
C27_UpdateOnlyAfterGet ==
    (tool = "file-move")
    => /\ Len(moveResults) <= Cardinality(GetsWith("fulfilled"))
       /\ UpdatesSent \subseteq GetsWith("fulfilled")
       /\ (BatchMode /\ moveResults # <<>>)
          => /\ GetsWith("pending") = {}
             /\ Len(filesToMove) = Len(moveResults)
             /\ \A j \in 1..Len(moveResults) : filesToMove[j] = fileIds[KthFulfilled(j)]
       /\ (mpc \in {"moving", "update", "returned"})
          => UpdatesSent = GetsWith("fulfilled")
       /\ (mpc = "returned")
          => \A f \in Range(fileIds) :
                Occurrences(OptList(result[1].failed), f)
                  >= Cardinality({i \in GetsWith("rejected") : fileIds[i] = f})

\* a batch of three: the get of the second file was rejected, the updates of
\* the other two are under way
C27_Witness ==
    /\ tool = "file-move"
    /\ mpc = "moving"
    /\ fileIds = <<"f1", "f2", "f1">>
    /\ metadataResults = <<"fulfilled", "rejected", "fulfilled">>
    /\ filesToMove = <<"f1", "f1">>
    /\ moveResults = <<"pending", "pending">>
    /\ failed = <<"f2">>


(***************************************************************************)
(* Parentheses outside quoted literals.                                    *)
(***************************************************************************)
\* the string values of the fields of a tree
TreeStrings(n) == UNION {TreeValues(n, k) : k \in FieldNames}

\* position j of s lies inside the quoted form of one of the values
InLiteral(s, j, values) ==
    \E v \in values :
        \E b \in (j - Len(quote(v)) + 1)..j :
            /\ b >= 1
            /\ b + Len(quote(v)) - 1 <= Len(s)
            /\ SubSeq(s, b, b + Len(quote(v)) - 1) = quote(v)

ParensOutside(s, c, values) ==
    {j \in 1..Len(s) : s[j] = c /\ ~InLiteral(s, j, values)}

BalancedSets(opens, closes) ==
    /\ Cardinality(opens) = Cardinality(closes)
    /\ \A i \in closes :
           Cardinality({j \in opens : j < i}) >= Cardinality({j \in closes : j <= i})

NoRawAnywhere == IsStructured /\ \A m \in Nodes(Root) : ~Has(m.rawDriveQuery)

\* C30: for every structured input without rawDriveQuery, the parentheses of
\* q that lie outside the quoted literals are balanced: every prefix holds
\* at least as many opening as closing ones and the totals are equal.
C30_ParenthesesBalanced ==
    (pc = "returned" /\ NoRawAnywhere) =>
        BalancedSets(ParensOutside(out.q, "(", TreeStrings(Root)),
                     ParensOutside(out.q, ")", TreeStrings(Root)))

\* a returned query with nested groups whose literals hold parentheses
C30_Witness ==
    /\ pc = "returned"
    /\ NoRawAnywhere
    /\ Root \in ParenTrees
    /\ Has(Root.and)
    /\ ParensOutside(out.q, "(", TreeStrings(Root)) # {}
    /\ \E j \in 1..Len(out.q) :
           out.q[j] = ")" /\ InLiteral(out.q, j, TreeStrings(Root))
    /\ \E j \in 1..Len(out.q) :
           out.q[j] = "(" /\ InLiteral(out.q, j, TreeStrings(Root))
====
